---- MODULE Spec2Model ----
(***************************************************************************)
(* xconnect_backend: the mapping service (service_impl/mapping_service.py) *)
(* with the tables, the secret stores and the two remote clients it uses.  *)
(*                                                                         *)
(* A Python str is a sequence of one-character strings, a dict is the      *)
(* sequence of its <<key, value>> items in insertion order (keys           *)
(* distinct), a database table is a set of rows or a function from the     *)
(* columns of its unique constraint to the row.                           *)
(***************************************************************************)
EXTENDS Naturals, Integers, Sequences, FiniteSets, TLC

VARIABLES
    mappings,       \* table mappings
    integrations,   \* table integrations, by (user_id, provider, label)
    secrets,        \* table secrets (SQLiteSecretStore)
    aws,            \* the secrets held by AWS Secrets Manager
    settings,       \* impl.config.settings, fixed at start-up
    now,            \* datetime.now(timezone.utc), as a count of the times read
    req,            \* req[p]: the call the request handler p is serving
    workload,       \* the requests the clients send in this run
    log,            \* the calls served by the handlers that are one transaction
    arg,            \* the argument of a function applied on its own
    ret             \* and what it returned

vars == <<mappings, integrations, secrets, aws, settings, now, req, workload, log, arg, ret>>

\* ------------------------------------------------------------------ str

\* The characters str.isalnum() accepts in ASCII, each range in code point order.
Digits == <<"0","1","2","3","4","5","6","7","8","9">>
Upper ==
    <<"A","B","C","D","E","F","G","H","I","J","K","L","M",
      "N","O","P","Q","R","S","T","U","V","W","X","Y","Z">>
Lower ==
    <<"a","b","c","d","e","f","g","h","i","j","k","l","m",
      "n","o","p","q","r","s","t","u","v","w","x","y","z">>

IndexOf(c, s) == CHOOSE i \in 1..Len(s) : s[i] = c
In(c, s) == \E i \in 1..Len(s) : s[i] = c

\* ord(c), for the characters the field names, identifiers and tags here are made of
Ord(c) ==
    IF In(c, Digits) THEN 47 + IndexOf(c, Digits)
    ELSE IF In(c, Upper) THEN 64 + IndexOf(c, Upper)
    ELSE IF In(c, Lower) THEN 96 + IndexOf(c, Lower)
    ELSE CASE c = "\t" -> 9
           [] c = "\n" -> 10
           [] c = " " -> 32
           [] c = "-" -> 45
           [] c = "." -> 46
           [] c = "/" -> 47
           [] c = "_" -> 95

\* str.isspace() of one character
Whitespace == {" ", "\t", "\n"}

SetMin(S) == CHOOSE x \in S : \A y \in S : x <= y
SetMax(S) == CHOOSE x \in S : \A y \in S : y <= x

\* str.strip()
strip(s) ==
    LET kept == {i \in 1..Len(s) : s[i] \notin Whitespace}
    IN  IF kept = {} THEN <<>> ELSE SubSeq(s, SetMin(kept), SetMax(kept))

\* str.lower()
lower(s) ==
    [i \in 1..Len(s) |->
        IF In(s[i], Upper) THEN Lower[IndexOf(s[i], Upper)] ELSE s[i]]

\* a < b for two str: lexicographic by code point
StrLess(a, b) ==
    \E i \in 1..(Len(a) + 1) :
        /\ \A j \in 1..(i - 1) : j <= Len(b) /\ a[j] = b[j]
        /\ i <= Len(b)
        /\ (i = Len(a) + 1 \/ Ord(a[i]) < Ord(b[i]))

\* sorted(S) for a set of str
RECURSIVE sorted(_)
sorted(S) ==
    IF S = {} THEN <<>>
    ELSE LET least == CHOOSE x \in S : \A y \in S \ {x} : StrLess(x, y)
         IN  <<least>> \o sorted(S \ {least})

\* ----------------------------------------------------------------- dict

keys(d) == [i \in 1..Len(d) |-> d[i][1]]
values(d) == [i \in 1..Len(d) |-> d[i][2]]
InDict(k, d) == \E i \in 1..Len(d) : d[i][1] = k

\* Every dict of at most n items with keys in K and values in V.
RECURSIVE Dicts(_, _, _)
Dicts(K, V, n) ==
    IF n = 0 THEN {<<>>}
    ELSE LET shorter == Dicts(K, V, n - 1)
         IN  shorter \cup
             {Append(d, <<k, v>>) : d \in {x \in shorter : Len(x) = n - 1},
                                    k \in K, v \in V}

DistinctKeys(d) == \A i, j \in 1..Len(d) : d[i][1] = d[j][1] => i = j

\* ------------------------------------------------- MappingService: rules

BIDIRECTIONAL == <<"b","i","d","i","r","e","c","t","i","o","n","a","l">>
GITHUB_TO_SERVICENOW ==
    <<"g","i","t","h","u","b","_","t","o","_","s","e","r","v","i","c","e","n","o","w">>
SERVICENOW_TO_GITHUB ==
    <<"s","e","r","v","i","c","e","n","o","w","_","t","o","_","g","i","t","h","u","b">>

_DIRECTIONS == {GITHUB_TO_SERVICENOW, SERVICENOW_TO_GITHUB, BIDIRECTIONAL}

\* One entry of the errors list of _basic_validate_mapping.
KeyEmptyError ==
    [text |-> "ServiceNow field names must be non-empty", field |-> <<>>, targets |-> <<>>]
ValueEmptyError(sn_field) ==
    [text |-> "GitHub field for '{sn_field}' must be non-empty", field |-> sn_field,
     targets |-> <<>>]
DuplicateError(duplicates) ==
    [text |-> "Bidirectional mappings must be one-to-one. Duplicate GitHub targets: ",
     field |-> <<>>, targets |-> sorted(duplicates)]

\* ItemErrors with a break after the first error found.
RECURSIVE ItemErrorsStopAtFirst(_)
ItemErrorsStopAtFirst(items) ==
    IF items = <<>> THEN <<>>
    ELSE IF strip(Head(items)[1]) = <<>> THEN <<KeyEmptyError>>
    ELSE IF strip(Head(items)[2]) = <<>> THEN <<ValueEmptyError(Head(items)[1])>>
    ELSE ItemErrorsStopAtFirst(Tail(items))

\* The first loop: one pass over mapping.items().
RECURSIVE ItemErrors(_)
ItemErrors(items) ==
    IF items = <<>> THEN <<>>
    ELSE LET sn_field == Head(items)[1]
             gh_field == Head(items)[2]
         IN  (IF strip(sn_field) = <<>> THEN <<KeyEmptyError>> ELSE <<>>)
             \o (IF strip(gh_field) = <<>> THEN <<ValueEmptyError(sn_field)>> ELSE <<>>)
             \o ItemErrors(Tail(items))

\* The second loop: the values seen before, in mapping.values() order.
DuplicateTargets(mapping) ==
    {values(mapping)[i] : i \in {j \in 1..Len(mapping) :
                                    \E h \in 1..(j - 1) : values(mapping)[h] = values(mapping)[j]}}

\* _basic_validate_mapping without the test of line 129: one-to-one for every direction.
BasicValidateAnyDirection(mapping, direction) ==
    ItemErrors(mapping)
    \o (IF DuplicateTargets(mapping) # {}
        THEN <<DuplicateError(DuplicateTargets(mapping))>>
        ELSE <<>>)

\* errors, as the function leaves it at line 142; it raises iff errors is not empty.
_basic_validate_mapping(mapping, direction) ==
    ItemErrors(mapping)
    \o (IF direction = BIDIRECTIONAL /\ DuplicateTargets(mapping) # {}
        THEN <<DuplicateError(DuplicateTargets(mapping))>>
        ELSE <<>>)

\* ----------------------------------------------------------- json_utils

\* dumps(obj): the JSON text of a dict of str, which loads reads back item by item
dumps(obj) == <<"json", obj>>
\* loads(s), with the callers' `or "{}"`
loads(s) == IF Len(s) = 0 THEN <<>> ELSE s[2]

\* ------------------------------------------------- MappingService: Matcher

\* str.isalnum() of one character
isalnum(c) == In(c, Digits) \/ In(c, Upper) \/ In(c, Lower)

\* _normalize_name as it would be without lower().
NormalizeNameKeepingCase(name) == SelectSeq(name, isalnum)

\* _normalize_name: "".join(ch for ch in name.lower() if ch.isalnum())
_normalize_name(name) == SelectSeq(lower(name), isalnum)

\* d[k] = v and d[k] of a dict: a key that is set again keeps its place
DictSet(d, k, v) ==
    IF InDict(k, d)
    THEN [i \in 1..Len(d) |-> IF d[i][1] = k THEN <<k, v>> ELSE d[i]]
    ELSE Append(d, <<k, v>>)
DictGet(d, k) == d[CHOOSE i \in 1..Len(d) : d[i][1] = k][2]

\* gh_norm_map with the normalized name for its value, and gh_norm_map with the
\* first field of a normalized name kept.
RECURSIVE GhNormMapNormalized(_)
GhNormMapNormalized(gh_fields) ==
    IF gh_fields = <<>> THEN <<>>
    ELSE DictSet(GhNormMapNormalized(SubSeq(gh_fields, 1, Len(gh_fields) - 1)),
                 _normalize_name(gh_fields[Len(gh_fields)]),
                 _normalize_name(gh_fields[Len(gh_fields)]))
RECURSIVE GhNormMapFirstWins(_)
GhNormMapFirstWins(gh_fields) ==
    IF gh_fields = <<>> THEN <<>>
    ELSE LET before == GhNormMapFirstWins(SubSeq(gh_fields, 1, Len(gh_fields) - 1))
         IN  IF InDict(_normalize_name(gh_fields[Len(gh_fields)]), before) THEN before
             ELSE Append(before, <<_normalize_name(gh_fields[Len(gh_fields)]),
                                   gh_fields[Len(gh_fields)]>>)

\* {self._normalize_name(f): f for f in gh_fields}
RECURSIVE GhNormMap(_)
GhNormMap(gh_fields) ==
    IF gh_fields = <<>> THEN <<>>
    ELSE DictSet(GhNormMap(SubSeq(gh_fields, 1, Len(gh_fields) - 1)),
                 _normalize_name(gh_fields[Len(gh_fields)]), gh_fields[Len(gh_fields)])

SHORTDESCRIPTION == <<"s","h","o","r","t","d","e","s","c","r","i","p","t","i","o","n">>
DESCRIPTION == <<"d","e","s","c","r","i","p","t","i","o","n">>
NAME == <<"n","a","m","e">>
BODY == <<"b","o","d","y">>
README == <<"r","e","a","d","m","e">>
STATE_ == <<"s","t","a","t","e">>
STATUS == <<"s","t","a","t","u","s">>
VISIBILITY == <<"v","i","s","i","b","i","l","i","t","y">>
PRIORITY == <<"p","r","i","o","r","i","t","y">>
ASSIGNMENTGROUP == <<"a","s","s","i","g","n","m","e","n","t","g","r","o","u","p">>
OWNER_LOGIN == <<"o","w","n","e","r","_","l","o","g","i","n">>
OWNER == <<"o","w","n","e","r">>
ORGANIZATION == <<"o","r","g","a","n","i","z","a","t","i","o","n">>
ASSIGNEDTO == <<"a","s","s","i","g","n","e","d","t","o">>
SUMMARY == <<"s","u","m","m","a","r","y">>

\* synonyms.get(norm, [])
synonyms(norm) ==
    CASE norm = SHORTDESCRIPTION -> <<DESCRIPTION, NAME>>
      [] norm = DESCRIPTION -> <<DESCRIPTION, BODY, README>>
      [] norm = STATE_ -> <<STATE_, STATUS, VISIBILITY>>
      [] norm = PRIORITY -> <<PRIORITY>>
      [] norm = ASSIGNMENTGROUP -> <<OWNER_LOGIN, OWNER, ORGANIZATION>>
      [] norm = ASSIGNEDTO -> <<OWNER_LOGIN, OWNER>>
      [] norm = SUMMARY -> <<DESCRIPTION, NAME>>
      [] OTHER -> <<>>

\* The matching blocks of SequenceMatcher(a=a, b=b) without junk (autojunk takes
\* effect from len(b) = 200 on): find_longest_match gives the longest block, of
\* the longest the one that starts earliest in a, of those the one that starts
\* earliest in b; get_matching_blocks goes on to the left and to the right of it.
\* Matches is the sum of their sizes. CommonBlocks holds, for each pair of equal
\* characters, the block that starts there and goes as far as a and b agree.
RECURSIVE Extent(_, _, _, _)
Extent(a, b, i, j) ==
    IF i > Len(a) \/ j > Len(b) THEN 0
    ELSE IF a[i] # b[j] THEN 0
    ELSE 1 + Extent(a, b, i + 1, j + 1)
CommonBlocks(a, b) ==
    {<<p[1], p[2], Extent(a, b, p[1], p[2])>> :
        p \in {q \in (1..Len(a)) \X (1..Len(b)) : a[q[1]] = b[q[2]]}}
Longest(blocks) ==
    LET size == SetMax({m[3] : m \in blocks})
        i == SetMin({m[1] : m \in {o \in blocks : o[3] = size}})
        j == SetMin({m[2] : m \in {o \in blocks : o[3] = size /\ o[1] = i}})
    IN  <<i, j, size>>
find_longest_match(a, b) == Longest(CommonBlocks(a, b))
RECURSIVE Matches(_, _)
Matches(a, b) ==
    LET blocks == CommonBlocks(a, b)
        m == Longest(blocks)
    IN  IF blocks = {} THEN 0
        ELSE m[3] + Matches(SubSeq(a, 1, m[1] - 1), SubSeq(b, 1, m[2] - 1))
                  + Matches(SubSeq(a, m[1] + m[3], Len(a)), SubSeq(b, m[2] + m[3], Len(b)))

\* SequenceMatcher(a=a, b=b).ratio(): 2.0 * matches / (len(a) + len(b)), 1.0 for two
\* empty str; here the fraction <<numerator, denominator>>. Two of these floats
\* compare as their fractions do (they differ by 1/(d1 * d2) at least).
ratio(a, b) ==
    IF Len(a) + Len(b) = 0 THEN <<1, 1>> ELSE <<2 * Matches(a, b), Len(a) + Len(b)>>
Greater(x, y) == x[1] * y[2] > y[1] * x[2]
AtLeast(x, y) == x[1] * y[2] >= y[1] * x[2]
ZERO == <<0, 1>>
\* _FUZZY_THRESHOLD = 0.78
_FUZZY_THRESHOLD == <<78, 100>>

\* f"{score:.2f}", in hundredths: the nearest, the even one of two that are as near
\* (below a denominator of 80 the only such score from 0.78 up is 0.875, a float
\* that is exact).
Hundredths(score) ==
    LET h == (100 * score[1]) \div score[2]
        r == (100 * score[1]) % score[2]
    IN  IF 2 * r < score[2] THEN h
        ELSE IF 2 * r > score[2] THEN h + 1
        ELSE IF h % 2 = 0 THEN h ELSE h + 1

\* best after the loop of _fuzzy_match over the items i..len of gh_norm_map
RECURSIVE Best(_, _, _, _)
Best(norm_sn, gh_norm_map, i, best) ==
    IF i > Len(gh_norm_map) THEN best
    ELSE LET score == ratio(norm_sn, gh_norm_map[i][1])
         IN  Best(norm_sn, gh_norm_map, i + 1,
                  IF Greater(score, best[2]) THEN <<<<gh_norm_map[i][2]>>, score>> ELSE best)

\* the loop of _fuzzy_match with `score >= best[1]` for its test
RECURSIVE BestOrLatest(_, _, _, _)
BestOrLatest(norm_sn, gh_norm_map, i, best) ==
    IF i > Len(gh_norm_map) THEN best
    ELSE LET score == ratio(norm_sn, gh_norm_map[i][1])
         IN  BestOrLatest(norm_sn, gh_norm_map, i + 1,
                  IF AtLeast(score, best[2]) THEN <<<<gh_norm_map[i][2]>>, score>> ELSE best)

\* _fuzzy_match with the later of two equal scores kept.
FuzzyMatchLatest(norm_sn, gh_norm_map) ==
    LET best == BestOrLatest(norm_sn, gh_norm_map, 1, <<<<>>, ZERO>>)
    IN  IF best[1] # <<>> /\ best[1][1] # <<>> /\ AtLeast(best[2], _FUZZY_THRESHOLD)
        THEN best
        ELSE <<<<>>, ZERO>>

\* _fuzzy_match with `best[1] > self._FUZZY_THRESHOLD` for its test.
FuzzyMatchAboveThreshold(norm_sn, gh_norm_map) ==
    LET best == Best(norm_sn, gh_norm_map, 1, <<<<>>, ZERO>>)
    IN  IF best[1] # <<>> /\ best[1][1] # <<>> /\ Greater(best[2], _FUZZY_THRESHOLD)
        THEN best
        ELSE <<<<>>, ZERO>>

\* _fuzzy_match: <<chosen, score>>, chosen None (<<>>) or the field (<<field>>)
_fuzzy_match(norm_sn, gh_norm_map) ==
    LET best == Best(norm_sn, gh_norm_map, 1, <<<<>>, ZERO>>)
    IN  IF best[1] # <<>> /\ best[1][1] # <<>> /\ AtLeast(best[2], _FUZZY_THRESHOLD)
        THEN best
        ELSE <<<<>>, ZERO>>

\* The notes, by what they say: f"Matched {sn} to GitHub field {chosen} by name",
\* f"Mapped {sn} to GitHub field {chosen} via synonym", f"AI fuzzy matched {sn} to
\* GitHub field {chosen} (score={score:.2f})".
MatchedByName(sn, chosen) == [how |-> "by name", sn |-> sn, chosen |-> chosen, score |-> 0]
MappedViaSynonym(sn, chosen) ==
    [how |-> "via synonym", sn |-> sn, chosen |-> chosen, score |-> 0]
FuzzyMatched(sn, chosen, score) ==
    [how |-> "AI fuzzy matched", sn |-> sn, chosen |-> chosen, score |-> Hundredths(score)]

\* `if chosen`, `if not chosen`: neither None nor ""
Truthy(chosen) == chosen # <<>> /\ chosen[1] # <<>>

\* The synonym loop with the candidates tried from the last one down: the field
\* of the last candidate that gh_norm_map has.
RECURSIVE LastSynonym(_, _, _)
LastSynonym(candidates, gh_norm_map, i) ==
    IF i > Len(candidates) THEN <<>>
    ELSE IF InDict(_normalize_name(candidates[Len(candidates) + 1 - i]), gh_norm_map)
    THEN <<DictGet(gh_norm_map, _normalize_name(candidates[Len(candidates) + 1 - i]))>>
    ELSE LastSynonym(candidates, gh_norm_map, i + 1)

\* The candidates of synonyms.get(norm, []) from the i-th on: the field of the
\* first one that gh_norm_map has (break), None if it has none of them.
RECURSIVE FirstSynonym(_, _, _)
FirstSynonym(candidates, gh_norm_map, i) ==
    IF i > Len(candidates) THEN <<>>
    ELSE IF InDict(_normalize_name(candidates[i]), gh_norm_map)
    THEN <<DictGet(gh_norm_map, _normalize_name(candidates[i]))>>
    ELSE FirstSynonym(candidates, gh_norm_map, i + 1)

\* The body of the loop with the synonyms looked up before the name.
MatchSynonymFirst(sn, gh_norm_map) ==
    LET norm == _normalize_name(sn)
        byName == IF InDict(norm, gh_norm_map) THEN <<DictGet(gh_norm_map, norm)>> ELSE <<>>
        bySynonym == FirstSynonym(synonyms(norm), gh_norm_map, 1)
        fuzzy == _fuzzy_match(norm, gh_norm_map)
    IN  IF bySynonym # <<>>
        THEN [chosen |-> bySynonym, notes |-> <<MappedViaSynonym(sn, bySynonym[1])>>]
        ELSE IF byName # <<>>
        THEN [chosen |-> byName, notes |-> <<MatchedByName(sn, byName[1])>>]
        ELSE IF Truthy(fuzzy[1])
        THEN [chosen |-> fuzzy[1], notes |-> <<FuzzyMatched(sn, fuzzy[1][1], fuzzy[2])>>]
        ELSE [chosen |-> <<>>, notes |-> <<>>]

\* The body of the loop over sn_fields: what is chosen for sn, and the notes made.
Match(sn, gh_norm_map) ==
    LET norm == _normalize_name(sn)
        first == IF InDict(norm, gh_norm_map)
                 THEN [chosen |-> <<DictGet(gh_norm_map, norm)>>,
                       notes |-> <<MatchedByName(sn, DictGet(gh_norm_map, norm))>>]
                 ELSE IF FirstSynonym(synonyms(norm), gh_norm_map, 1) # <<>>
                 THEN [chosen |-> FirstSynonym(synonyms(norm), gh_norm_map, 1),
                       notes |-> <<MappedViaSynonym(
                                     sn, FirstSynonym(synonyms(norm), gh_norm_map, 1)[1])>>]
                 ELSE [chosen |-> <<>>, notes |-> <<>>]
        fuzzy == _fuzzy_match(norm, gh_norm_map)
    IN  IF Truthy(first.chosen) THEN first
        ELSE IF Truthy(fuzzy[1])
        THEN [chosen |-> fuzzy[1],
              notes |-> first.notes \o <<FuzzyMatched(sn, fuzzy[1][1], fuzzy[2])>>]
        ELSE [chosen |-> <<>>, notes |-> first.notes]

\* _suggest_mapping(sn_fields, gh_fields): mapping and notes
RECURSIVE _suggest_mapping(_, _)
_suggest_mapping(sn_fields, gh_fields) ==
    IF sn_fields = <<>> THEN [mapping |-> <<>>, notes |-> <<>>]
    ELSE LET before == _suggest_mapping(SubSeq(sn_fields, 1, Len(sn_fields) - 1), gh_fields)
             sn == sn_fields[Len(sn_fields)]
             found == Match(sn, GhNormMap(gh_fields))
         IN  [mapping |-> IF Truthy(found.chosen)
                          THEN DictSet(before.mapping, sn, found.chosen[1])
                          ELSE before.mapping,
              notes |-> before.notes \o found.notes]

\* ------------------------------------------- validate, auto_map: the answer

\* The values of a JSON document that the answers of the remote systems hold:
\* true and false, and a string.
JsonBool(b) == [type |-> "bool", bool |-> b, str |-> <<>>]
JsonStr(text) == [type |-> "str", bool |-> FALSE, str |-> text]
TRUE_ == <<"t","r","u","e">>
FALSE_ == <<"f","a","l","s","e">>

\* `if v`: a bool is its value, a str is true unless it is empty
truth(v) == IF v.type = "bool" THEN v.bool ELSE v.str # <<>>

\* sep.join(strs)
RECURSIVE join(_, _)
join(sep, strs) ==
    IF strs = <<>> THEN <<>>
    ELSE IF Len(strs) = 1 THEN strs[1]
    ELSE strs[1] \o sep \o join(sep, Tail(strs))

\* [e for e in seq if e not in within]
RECURSIVE NotIn(_, _)
NotIn(seq, within) ==
    IF seq = <<>> THEN <<>>
    ELSE IF \E i \in 1..Len(within) : within[i] = seq[1]
    THEN NotIn(Tail(seq), within)
    ELSE <<seq[1]>> \o NotIn(Tail(seq), within)

\* [str(f.get("element")) for f in sn_fields_raw if f.get(flag)], flag "element"
\* or "mandatory"
RECURSIVE Elements(_, _)
Elements(sn_fields_raw, flag) ==
    IF sn_fields_raw = <<>> THEN <<>>
    ELSE (IF (IF flag = "element" THEN sn_fields_raw[1].element # <<>>
              ELSE truth(sn_fields_raw[1].mandatory))
          THEN <<sn_fields_raw[1].element>> ELSE <<>>)
         \o Elements(Tail(sn_fields_raw), flag)

\* f"Missing required ServiceNow fields: {', '.join(missing_required)}", with the
\* joined names for sn
MissingRequired(missing_required) ==
    [how |-> "Missing required ServiceNow fields", sn |-> join(<<",", " ">>, missing_required),
     chosen |-> <<>>, score |-> 0]

\* validate with the warning left to every direction.
ValidationResponseWarningAnyDirection(mapping, direction, repo_raw, sn_fields_raw) ==
    LET gh_fields == keys(repo_raw)
        sn_fields == Elements(sn_fields_raw, "element")
        sn_required == Elements(sn_fields_raw, "mandatory")
        missing_sn == NotIn(keys(mapping), sn_fields)
        missing_gh == NotIn(values(mapping), gh_fields)
        missing_required == NotIn(sn_required, keys(mapping))
        warnings == IF missing_required # <<>>
                    THEN <<MissingRequired(missing_required)>> ELSE <<>>
        suggested == _suggest_mapping(sn_fields, gh_fields)
    IN  [ok |-> missing_sn = <<>> /\ missing_gh = <<>>,
         suggested_mapping |-> suggested.mapping,
         missing_servicenow_fields |-> missing_sn,
         missing_github_fields |-> missing_gh,
         warnings |-> warnings \o suggested.notes]

\* validate with ok taken from the table fields alone.
ValidationResponseOkByTableFields(mapping, direction, repo_raw, sn_fields_raw) ==
    LET gh_fields == keys(repo_raw)
        sn_fields == Elements(sn_fields_raw, "element")
        sn_required == Elements(sn_fields_raw, "mandatory")
        missing_sn == NotIn(keys(mapping), sn_fields)
        missing_gh == NotIn(values(mapping), gh_fields)
        missing_required == NotIn(sn_required, keys(mapping))
        warnings == IF missing_required # <<>>
                       /\ direction \in {GITHUB_TO_SERVICENOW, BIDIRECTIONAL}
                    THEN <<MissingRequired(missing_required)>> ELSE <<>>
        suggested == _suggest_mapping(sn_fields, gh_fields)
    IN  [ok |-> missing_sn = <<>>,
         suggested_mapping |-> suggested.mapping,
         missing_servicenow_fields |-> missing_sn,
         missing_github_fields |-> missing_gh,
         warnings |-> warnings \o suggested.notes]

\* validate from gh_fields = ... on: the MappingValidationResponse
MappingValidationResponse(mapping, direction, repo_raw, sn_fields_raw) ==
    LET gh_fields == keys(repo_raw)
        sn_fields == Elements(sn_fields_raw, "element")
        sn_required == Elements(sn_fields_raw, "mandatory")
        missing_sn == NotIn(keys(mapping), sn_fields)
        missing_gh == NotIn(values(mapping), gh_fields)
        missing_required == NotIn(sn_required, keys(mapping))
        warnings == IF missing_required # <<>>
                       /\ direction \in {GITHUB_TO_SERVICENOW, BIDIRECTIONAL}
                    THEN <<MissingRequired(missing_required)>> ELSE <<>>
        suggested == _suggest_mapping(sn_fields, gh_fields)
    IN  [ok |-> missing_sn = <<>> /\ missing_gh = <<>>,
         suggested_mapping |-> suggested.mapping,
         missing_servicenow_fields |-> missing_sn,
         missing_github_fields |-> missing_gh,
         warnings |-> warnings \o suggested.notes]

\* auto_map with the fields of the two schemas taken the other way round.
AutoMappingResponseSwapped(repo_raw, sn_fields_raw) ==
    LET suggested == _suggest_mapping(keys(repo_raw), Elements(sn_fields_raw, "element"))
    IN  [ok |-> TRUE, mapping |-> suggested.mapping, notes |-> suggested.notes]

\* auto_map from gh_fields = ... on: the AutoMappingResponse
AutoMappingResponse(repo_raw, sn_fields_raw) ==
    LET gh_fields == keys(repo_raw)
        sn_fields == Elements(sn_fields_raw, "element")
        suggested == _suggest_mapping(sn_fields, gh_fields)
    IN  [ok |-> TRUE, mapping |-> suggested.mapping, notes |-> suggested.notes]

\* ------------------------------------------------------- table mappings

\* The attributes of class Mapping (db/models.py): its columns and its relationship.
MappingAttributes ==
    {"id", "user_id", "github_repo_full_name", "servicenow_table", "label", "created_at", "user"}

\* Mapping(**kwargs), the declarative constructor: a keyword that is no attribute of
\* the class raises TypeError. kwargs is the record of the keywords.
Mapping(kwargs) ==
    [raised |-> ~(DOMAIN kwargs \subseteq MappingAttributes), row |-> kwargs]

\* uq_mapping
MappingKey(row) ==
    <<row.user_id, row.github_repo_full_name, row.servicenow_table, row.label>>

\* utc_now() as the column default sees it: a time later than every row's.
utc_now(table) == Cardinality(table) + 1

\* db.add(row); db.commit(): the INSERT, refused by uq_mapping, else the row with
\* its primary key and column defaults.
InsertMapping(table, row) ==
    IF \E r \in table : MappingKey(r) = MappingKey(row)
    THEN [raised |-> TRUE, table |-> table, row |-> row]
    ELSE LET stored == [a \in DOMAIN row \cup {"id", "created_at"} |->
                            IF a = "id" THEN Cardinality(table) + 1
                            ELSE IF a = "created_at" THEN utc_now(table)
                            ELSE row[a]]
         IN  [raised |-> FALSE, table |-> table \cup {stored}, row |-> stored]

\* --------------------------------------------------- the secret stores

None == <<>>
Some(v) == <<v>>
IsNone(o) == Len(o) = 0

GITHUB == "github"
SERVICENOW == "servicenow"

\* f"sqlite:{row.id}" and f"aws:{secret_name}"
SqliteRef(id) == [store |-> "sqlite", id |-> id, name |-> <<>>]
AwsRef(name) == [store |-> "aws", id |-> 0, name |-> name]

NextId(table) == IF table = {} THEN 1 ELSE SetMax({row.id : row \in table}) + 1

\* SQLiteSecretStore.put(user_id, name, value): the row of (user_id, name), made if
\* there is none.
SqlitePut(table, user_id, name) ==
    IF \E row \in table : row.user_id = user_id /\ row.name = name
    THEN [table |-> table,
          ref |-> SqliteRef((CHOOSE row \in table : row.user_id = user_id /\ row.name = name).id)]
    ELSE [table |-> table \cup {[id |-> NextId(table), user_id |-> user_id, name |-> name]},
          ref |-> SqliteRef(NextId(table))]

\* SQLiteSecretStore.get(user_id, ref)
SqliteGet(table, user_id, ref) ==
    IF ref.store # "sqlite"
    THEN [raised |-> TRUE, exception |-> "ValueError: Invalid sqlite secret ref"]
    ELSE IF ~\E row \in table : row.id = ref.id /\ row.user_id = user_id
    THEN [raised |-> TRUE, exception |-> "ValueError: Secret not found"]
    ELSE [raised |-> FALSE, exception |-> ""]

\* AWSSecretsManagerStore._name
AwsName(user_id, name) == <<"xconnect", user_id, name>>

\* AWSSecretsManagerStore.get(user_id, ref): get_secret_value answers or raises.
AwsGet(held, user_id, ref, remote) ==
    IF ref.store # "aws"
    THEN [raised |-> TRUE, exception |-> "ValueError: Invalid aws secret ref"]
    ELSE IF ref.name \notin held \/ remote # "ok"
    THEN [raised |-> TRUE, exception |-> "ClientError"]
    ELSE [raised |-> FALSE, exception |-> ""]

\* get_secret_store(db).get(user_id=user_id, ref=ref)
StoreGet(cfg, table, held, user_id, ref, remote) ==
    IF cfg.secret_store = "sqlite"
    THEN SqliteGet(table, user_id, ref)
    ELSE AwsGet(held, user_id, ref, remote)

\* ------------------------------------------------- table integrations

MsgLimit == 500
\* a str is here its text and its length; "OK"
OK == [text |-> "OK", len |-> 2]
\* str(e)[:n]
Slice(e, n) == [text |-> e.text, len |-> IF e.len > n THEN n ELSE e.len]


\* Integration(...) as the INSERT stores it: the last-test columns are nullable.
Integration(config_json, secret_ref) ==
    [config_json |-> config_json, secret_ref |-> secret_ref,
     last_tested_at |-> None, last_test_ok |-> None, last_test_message |-> None]

\* db.query(Integration).filter(user_id, provider, label).first(): the row as the
\* session holds it from then on.
QueryIntegration(table, user_id, provider, label) ==
    IF <<user_id, provider, label>> \in DOMAIN table
    THEN Some([key |-> <<user_id, provider, label>>,
               loaded |-> table[<<user_id, provider, label>>]])
    ELSE None

\* The UPDATE that db.commit() flushes for a row held by the session: the unit of
\* work sets the columns whose assigned value differs from the loaded one and
\* leaves the other columns of the stored row as they are.
Flush(table, held, assigned) ==
    [k \in DOMAIN table |->
        IF k # held.key THEN table[k]
        ELSE [c \in DOMAIN table[k] |->
                IF c \in DOMAIN assigned /\ assigned[c] # held.loaded[c]
                THEN assigned[c]
                ELSE table[k][c]]]

\* row.last_tested_at, row.last_test_ok, row.last_test_message as the handlers
\* assign them.
Passed(t) ==
    [last_tested_at |-> Some(t), last_test_ok |-> Some(TRUE), last_test_message |-> Some(OK)]
Failed(t, msg) ==
    [last_tested_at |-> Some(t), last_test_ok |-> Some(FALSE), last_test_message |-> Some(msg)]

\* connect, from the query on: the row of (user_id, provider, label) updated, or
\* added, with the test recorded as passed, and committed.
Upsert(table, user_id, provider, label, config_json, secret_ref, t) ==
    LET key == <<user_id, provider, label>>
        row == [config_json |-> config_json, secret_ref |-> secret_ref] @@ Passed(t)
    IN  [k \in DOMAIN table \cup {key} |-> IF k = key THEN row ELSE table[k]]

\* True of a cfg.get(k) that `not` takes for false: no item k, or an empty value.
Lacks(cfg, k) == \A i \in 1..Len(cfg) : cfg[i][1] = k => cfg[i][2] = ""

\* ------------------------------------------------- MappingService.create

DEFAULT == <<"d","e","f","a","u","l","t">>

\* create with the direction tested before the shape of the repository.
createDirectionFirst(table, user_id, r) ==
    IF lower(strip(r.direction)) \notin _DIRECTIONS
    THEN [table |-> table,
          outcome |-> [status_code |-> 400,
                       detail |-> "direction must be github_to_servicenow, servicenow_to_github, or bidirectional",
                       errors |-> <<>>, cause |-> <<>>, body |-> <<>>],
          trace |-> <<>>]
    ELSE [table |-> table,
          outcome |-> [status_code |-> 400,
                       detail |-> "github_repo_full_name must be like owner/repo",
                       errors |-> <<>>, cause |-> <<>>, body |-> <<>>],
          trace |-> <<>>]

\* _normalize_direction: (direction or "").strip().lower(), raised iff not in _DIRECTIONS
_normalize_direction(direction) == lower(strip(direction))

\* What a handler hands to its caller: an HTTPException (status_code, detail), an
\* exception that is none (500), or the response body. errors are the entries a
\* detail joins, cause the exception a detail formats ("...: {e}").
HTTPException(status_code, detail, errors) ==
    [status_code |-> status_code, detail |-> detail, errors |-> errors, cause |-> <<>>,
     body |-> <<>>]
Uncaught(exception) ==
    [status_code |-> 500, detail |-> exception, errors |-> <<>>, cause |-> <<>>, body |-> <<>>]
Response(body) ==
    [status_code |-> 200, detail |-> "", errors |-> <<>>, cause |-> <<>>, body |-> <<body>>]

RepoShapeError == HTTPException(400, "github_repo_full_name must be like owner/repo", <<>>)
DirectionError ==
    HTTPException(400, "direction must be github_to_servicenow, servicenow_to_github, or bidirectional", <<>>)
\* detail is "; ".join(errors): the entries, in order
MappingError(errors) == HTTPException(400, "; .join(errors)", errors)
ConflictError == HTTPException(409, "Mapping already exists", <<>>)

\* create with the row added and committed before the tests of the request.
createAddingFirst(table, user_id, r) ==
    LET direction == _normalize_direction(r.direction)
        errors == _basic_validate_mapping(r.field_mapping, direction)
        done == InsertMapping(table,
                              [user_id |-> user_id,
                               github_repo_full_name |-> strip(r.github_repo_full_name),
                               servicenow_table |-> strip(r.servicenow_table),
                               label |-> IF strip(r.label) = <<>> THEN DEFAULT
                                         ELSE strip(r.label)])
    IN  [table |-> done.table,
         outcome |-> IF ~In("/", r.github_repo_full_name) THEN RepoShapeError
                     ELSE IF direction \notin _DIRECTIONS THEN DirectionError
                     ELSE IF errors # <<>> THEN MappingError(errors)
                     ELSE ConflictError,
         trace |-> <<"INSERT", "COMMIT">>]

\* create that writes over the mapping that holds the key already.
createReplacing(table, user_id, r) ==
    LET key == <<user_id, strip(r.github_repo_full_name), strip(r.servicenow_table),
                 IF strip(r.label) = <<>> THEN DEFAULT ELSE strip(r.label)>>
    IN  [table |-> {IF MappingKey(row) = key THEN [row EXCEPT !.created_at = utc_now(table)]
                    ELSE row : row \in table},
         outcome |-> ConflictError,
         trace |-> <<"UPDATE", "COMMIT">>]

\* create(user_id, req) on the table as it is: the table after the call, what the
\* caller gets, and the statements sent to the database.
create(table, user_id, r) ==
    LET direction == _normalize_direction(r.direction)
        field_mapping == r.field_mapping
        errors == _basic_validate_mapping(field_mapping, direction)
        made == Mapping([user_id |-> user_id,
                         github_repo_full_name |-> strip(r.github_repo_full_name),
                         servicenow_table |-> strip(r.servicenow_table),
                         label |-> IF strip(r.label) = <<>> THEN DEFAULT ELSE strip(r.label),
                         direction |-> direction,
                         field_mapping_json |-> dumps(field_mapping)])
        done == InsertMapping(table, made.row)
    IN  IF ~In("/", r.github_repo_full_name)
        THEN [table |-> table, outcome |-> RepoShapeError, trace |-> <<>>]
        ELSE IF direction \notin _DIRECTIONS
        THEN [table |-> table, outcome |-> DirectionError, trace |-> <<>>]
        ELSE IF errors # <<>>
        THEN [table |-> table, outcome |-> MappingError(errors), trace |-> <<>>]
        ELSE IF made.raised
        THEN [table |-> table,
              outcome |-> Uncaught("TypeError: 'direction' is an invalid keyword argument for Mapping"),
              trace |-> <<>>]
        ELSE IF done.raised
        THEN [table |-> table, outcome |-> ConflictError, trace |-> <<"INSERT", "ROLLBACK">>]
        ELSE [table |-> done.table,
              outcome |-> Response([id |-> done.row.id,
                                    github_repo_full_name |-> done.row.github_repo_full_name,
                                    servicenow_table |-> done.row.servicenow_table,
                                    label |-> done.row.label,
                                    direction |-> done.row.direction,
                                    field_mapping |-> loads(done.row.field_mapping_json),
                                    created_at |-> done.row.created_at]),
              trace |-> <<"INSERT", "COMMIT", "SELECT">>]

\* .order_by(Mapping.id.desc()).all() of the rows of a set
RECURSIVE ByIdDesc(_)
ByIdDesc(rows) ==
    IF rows = {} THEN <<>>
    ELSE LET latest == CHOOSE r \in rows : \A o \in rows : o.id <= r.id
         IN  <<latest>> \o ByIdDesc(rows \ {latest})

\* The attributes list reads of each row it has loaded.
ListReads ==
    {"id", "github_repo_full_name", "servicenow_table", "label", "direction",
     "field_mapping_json", "created_at"}

\* MappingService.list(user_id): the rows of the user, the latest id first, each
\* made a MappingResponse; reading an attribute that class Mapping has not raises
\* AttributeError.
list(table, user_id) ==
    LET rows == ByIdDesc({r \in table : r.user_id = user_id})
    IN  IF rows # <<>> /\ ~(ListReads \subseteq MappingAttributes)
        THEN Uncaught("AttributeError: 'Mapping' object has no attribute 'direction'")
        ELSE Response([ok |-> TRUE,
                       items |-> [i \in 1..Len(rows) |->
                                    [id |-> rows[i].id,
                                     github_repo_full_name |-> rows[i].github_repo_full_name,
                                     servicenow_table |-> rows[i].servicenow_table,
                                     label |-> rows[i].label,
                                     direction |-> rows[i].direction,
                                     field_mapping |-> loads(rows[i].field_mapping_json),
                                     created_at |-> rows[i].created_at]]])

\* --------------------------- MappingService.validate, MappingService.auto_map

NotConfigured(provider) ==
    IF provider = GITHUB
    THEN HTTPException(404, "GitHub integration not configured", <<>>)
    ELSE HTTPException(404, "ServiceNow integration not configured", <<>>)
ConfigIncomplete == HTTPException(500, "ServiceNow integration config incomplete", <<>>)
\* detail=f"Validation failed: {e}", detail=f"Auto mapping failed: {e}"
FetchFailed(op, e) ==
    [HTTPException(400, IF op = "validate" THEN "Validation failed: {e}"
                        ELSE "Auto mapping failed: {e}", <<>>)
        EXCEPT !.cause = <<e>>]

\* What _get_github_client and _get_servicenow_client come to: the exception
\* raised, if any, the row held, and what was asked of the database and the store.
Client(raised, row, trace) == [raised |-> raised, row |-> row, trace |-> trace]

\* _get_github_client without the failure of store.get.
GetGithubClientWhateverTheStore(table, stored, held, cfg, user_id, label, remote) ==
    LET row == QueryIntegration(table, user_id, GITHUB, label)
    IN  IF IsNone(row) \/ IsNone(row[1].loaded.secret_ref)
        THEN Client(Some(NotConfigured(GITHUB)), None, <<"query github">>)
        ELSE Client(None, row, <<"query github", "store.get">>)

_get_github_client(table, stored, held, cfg, user_id, label, remote) ==
    LET row == QueryIntegration(table, user_id, GITHUB, label)
        token == StoreGet(cfg, stored, held, user_id, row[1].loaded.secret_ref[1], remote)
    IN  IF IsNone(row) \/ IsNone(row[1].loaded.secret_ref)
        THEN Client(Some(NotConfigured(GITHUB)), None, <<"query github">>)
        ELSE IF token.raised
        THEN Client(Some(Uncaught(token.exception)), None, <<"query github", "store.get">>)
        ELSE Client(None, row, <<"query github", "store.get">>)

\* _get_servicenow_client without the test of the configuration.
GetServiceNowClientWhateverTheConfig(table, stored, held, cfg, user_id, label, remote) ==
    LET row == QueryIntegration(table, user_id, SERVICENOW, label)
        password == StoreGet(cfg, stored, held, user_id, row[1].loaded.secret_ref[1], remote)
    IN  IF IsNone(row) \/ IsNone(row[1].loaded.secret_ref)
        THEN Client(Some(NotConfigured(SERVICENOW)), None, <<"query servicenow">>)
        ELSE IF password.raised
        THEN Client(Some(Uncaught(password.exception)), None, <<"query servicenow", "store.get">>)
        ELSE Client(None, row, <<"query servicenow", "store.get">>)

_get_servicenow_client(table, stored, held, cfg, user_id, label, remote) ==
    LET row == QueryIntegration(table, user_id, SERVICENOW, label)
        config == loads(row[1].loaded.config_json)
        password == StoreGet(cfg, stored, held, user_id, row[1].loaded.secret_ref[1], remote)
    IN  IF IsNone(row) \/ IsNone(row[1].loaded.secret_ref)
        THEN Client(Some(NotConfigured(SERVICENOW)), None, <<"query servicenow">>)
        ELSE IF Lacks(config, "instance_url") \/ Lacks(config, "username")
        THEN Client(Some(ConfigIncomplete), None, <<"query servicenow">>)
        ELSE IF password.raised
        THEN Client(Some(Uncaught(password.exception)), None, <<"query servicenow", "store.get">>)
        ELSE Client(None, row, <<"query servicenow", "store.get">>)

\* The tests of validate with the Validator left out.
PreconditionsWithoutValidator(op, r) ==
    IF ~In("/", r.github_repo_full_name) THEN Some(RepoShapeError)
    ELSE IF _normalize_direction(r.direction) \notin _DIRECTIONS THEN Some(DirectionError)
    ELSE None

\* The tests validate and auto_map make before they open a session: the exception
\* raised, if any. auto_map has no Validator.
Preconditions(op, r) ==
    IF ~In("/", r.github_repo_full_name) THEN Some(RepoShapeError)
    ELSE IF _normalize_direction(r.direction) \notin _DIRECTIONS THEN Some(DirectionError)
    ELSE IF op = "validate"
            /\ _basic_validate_mapping(r.field_mapping, _normalize_direction(r.direction)) # <<>>
    THEN Some(MappingError(_basic_validate_mapping(r.field_mapping,
                                                   _normalize_direction(r.direction))))
    ELSE None

\* A handler of validate or auto_map between its steps. pc is where it stands:
\* "idle", "get_repo", "list_fields", "commit", "respond", "done".
Idle ==
    [pc |-> "idle", op |-> "", user_id |-> 0, r |-> None, gh_row |-> None, sn_row |-> None,
     repo_raw |-> None, sn_fields_raw |-> None, e |-> None, trace |-> <<>>, outcome |-> None]

\* validate and auto_map up to the try block: the tests, then the two clients.
Begin(op, table, stored, held, cfg, user_id, r, remote) ==
    LET call == [Idle EXCEPT !.op = op, !.user_id = user_id, !.r = Some(r)]
        refused == Preconditions(op, r)
        gh == _get_github_client(table, stored, held, cfg, user_id, r.label, remote)
        sn == _get_servicenow_client(table, stored, held, cfg, user_id, r.label, remote)
    IN  IF ~IsNone(refused)
        THEN [call EXCEPT !.pc = "done", !.outcome = refused]
        ELSE IF ~IsNone(gh.raised)
        THEN [call EXCEPT !.pc = "done", !.outcome = gh.raised, !.trace = gh.trace]
        ELSE IF ~IsNone(sn.raised)
        THEN [call EXCEPT !.pc = "done", !.outcome = sn.raised, !.trace = gh.trace \o sn.trace]
        ELSE [call EXCEPT !.pc = "get_repo", !.gh_row = gh.row, !.sn_row = sn.row,
                          !.trace = gh.trace \o sn.trace]

\* The three assignments of the try block or of the except block, on both rows,
\* and db.commit().
CommitLastTest(table, call, t) ==
    LET assigned == IF IsNone(call.e) THEN Passed(t)
                    ELSE Failed(t, Slice(call.e[1], MsgLimit))
    IN  Flush(Flush(table, call.gh_row[1], assigned), call.sn_row[1], assigned)

\* What the call hands back after the commit: the HTTPException of the except
\* block, or the response, which is computed from the request and the two schemas.
Outcome(call) ==
    IF ~IsNone(call.e) THEN FetchFailed(call.op, call.e[1])
    ELSE IF call.op = "validate"
    THEN Response(MappingValidationResponse(call.r[1].field_mapping,
                                            _normalize_direction(call.r[1].direction),
                                            call.repo_raw[1], call.sn_fields_raw[1]))
    ELSE Response(AutoMappingResponse(call.repo_raw[1], call.sn_fields_raw[1]))

\* ------------------------------------------- the rules applied on their own

MaxItems == 3

SnNames == {<<>>, <<" ">>, <<"a">>, <<"b">>}
GhNames == {<<>>, <<"x">>, <<"x", " ">>, <<"y">>}

Quiet ==
    /\ mappings = {}
    /\ integrations = <<>>
    /\ secrets = {}
    /\ aws = {}
    /\ settings = [secret_store |-> "sqlite"]
    /\ now = 1
    /\ req = <<>>
    /\ workload = <<>>
    /\ log = <<>>

InitValidator ==
    /\ Quiet
    /\ arg \in [mapping : Dicts(SnNames, GhNames, MaxItems), direction : _DIRECTIONS]
    /\ DistinctKeys(arg.mapping)
    /\ ret = <<>>

\* self._basic_validate_mapping(mapping, direction): ret holds what the call did.
BasicValidate ==
    /\ Len(ret) = 0
    /\ ret' = <<[errors |-> _basic_validate_mapping(arg.mapping, arg.direction),
                 raised |-> _basic_validate_mapping(arg.mapping, arg.direction) # <<>>]>>
    /\ UNCHANGED <<mappings, integrations, secrets, aws, settings, now, req, workload, log, arg>>

NextValidator == BasicValidate

SpecValidator == InitValidator /\ [][NextValidator]_vars

\* ------------------------------------------------ _normalize_name on its own

MaxName == 3

NameChars == {"a", "A", "b", "1", "_", " "}

\* Every str of at most n of the characters of C.
RECURSIVE Strs(_, _)
Strs(C, n) ==
    IF n = 0 THEN {<<>>}
    ELSE Strs(C, n - 1) \cup {Append(x, c) : x \in {y \in Strs(C, n - 1) : Len(y) = n - 1},
                                             c \in C}

InitNormalize ==
    /\ Quiet
    /\ arg \in [name : Strs(NameChars, MaxName)]
    /\ ret = <<>>

\* self._normalize_name(name), and once more on what it gave
NormalizeName ==
    /\ Len(ret) = 0
    /\ ret' = <<[once |-> _normalize_name(arg.name),
                 twice |-> _normalize_name(_normalize_name(arg.name))]>>
    /\ UNCHANGED <<mappings, integrations, secrets, aws, settings, now, req, workload, log, arg>>

NextNormalize == NormalizeName

SpecNormalize == InitNormalize /\ [][NextNormalize]_vars

\* ---------------------------------------------------- _fuzzy_match on its own

MaxGhNorms == 2

\* Normalized names: short ones with scores on both sides of the threshold, and two
\* of 50 characters with 39 in one block, the score 78/100.
FuzzyNames ==
    {<<>>, <<"a">>, <<"a","b","c","d">>, <<"a","b","c","d","e">>, <<"a","b","c","e">>,
     <<"a","b","x","d","e">>, <<"x","b","c","d","e">>,
     <<"a","b","c","d","e","f","g","h","i">>, <<"a","b","c","d","e","f","g","x","y">>,
     <<"a","b","c","d","e","f","g","h","i","j","k","l","m","n","o","p","q","r","s","t","u","v","w","x","y","z","0","1","2","3","4","5","6","7","8","9","a","b","c","x","x","x","x","x","x","x","x","x","x","x">>,
     <<"a","b","c","d","e","f","g","h","i","j","k","l","m","n","o","p","q","r","s","t","u","v","w","x","y","z","0","1","2","3","4","5","6","7","8","9","a","b","c","y","y","y","y","y","y","y","y","y","y","y">>}

\* Every list of at most n of the pool.
Lists(pool, n) == {<<>>} \cup UNION {[1..h -> pool] : h \in 1..n}

\* A repository field with the normalized name n.
FieldOf(n) == <<"_">> \o n

InitFuzzy ==
    /\ Quiet
    /\ arg \in [norm_sn : FuzzyNames,
                gh_fields : Lists({FieldOf(n) : n \in FuzzyNames}, MaxGhNorms)]
    /\ ret = <<>>

\* self._fuzzy_match(norm_sn, gh_norm_map)
FuzzyMatch ==
    /\ Len(ret) = 0
    /\ ret' = <<_fuzzy_match(arg.norm_sn, GhNormMap(arg.gh_fields))>>
    /\ UNCHANGED <<mappings, integrations, secrets, aws, settings, now, req, workload, log, arg>>

NextFuzzy == FuzzyMatch

SpecFuzzy == InitFuzzy /\ [][NextFuzzy]_vars

\* -------------------------------------------------- _suggest_mapping on its own

MaxSnFields == 2
MaxGhFields == 3

SHORT_DESCRIPTION == <<"s","h","o","r","t","_","d","e","s","c","r","i","p","t","i","o","n">>
LANGUAGE == <<"l","a","n","g","u","a","g","e">>
ShortDescription == <<"S","h","o","r","t","D","e","s","c","r","i","p","t","i","o","n">>
OWNERS == <<"o","w","n","e","r","s">>
OWNER_A == <<"o","w","n","e","r","_","a">>
OWNER_B == <<"o","w","n","e","r","_","b">>
OwnerA == <<"O","w","n","e","r","A">>
SUMMAR == <<"s","u","m","m","a","r">>

SnPool == {SHORT_DESCRIPTION, PRIORITY, SUMMARY, OWNERS}
GhPool == {DESCRIPTION, NAME, LANGUAGE, ShortDescription, OWNER_A, OWNER_B, OwnerA, SUMMAR}

InitMatcher ==
    /\ Quiet
    /\ arg \in [sn_fields : Lists(SnPool, MaxSnFields), gh_fields : Lists(GhPool, MaxGhFields)]
    /\ ret = <<>>

\* self._suggest_mapping(sn_fields, gh_fields), called a first and a second time
Suggest ==
    /\ Len(ret) < 2
    /\ ret' = Append(ret, _suggest_mapping(arg.sn_fields, arg.gh_fields))
    /\ UNCHANGED <<mappings, integrations, secrets, aws, settings, now, req, workload, log, arg>>

NextMatcher == Suggest

SpecMatcher == InitMatcher /\ [][NextMatcher]_vars

\* ------------------------------- _suggest_mapping on fields of the same name

Description_ == <<"D","e","s","c","r","i","p","t","i","o","n">>

InitCollision ==
    /\ Quiet
    /\ arg \in [sn_fields : Lists({DESCRIPTION, SHORT_DESCRIPTION, OWNERS}, MaxSnFields),
                gh_fields : Lists({DESCRIPTION, Description_, NAME, OWNER_A, OwnerA},
                                  MaxGhFields)]
    /\ ret = <<>>

SpecCollision == InitCollision /\ [][NextMatcher]_vars

\* ------------------------------------------ the answer of validate on its own

MaxPairs == 2
MaxRows == 2

\* What the two fetches can have returned: the repository object with its keys,
\* and the rows of sys_dictionary; the Table API gives mandatory as the string
\* "true" or "false", a JSON document as such can hold the booleans, and the row
\* of the table itself has an empty element.
RepoRaws == {<<>>, <<<<<<"A">>, "1">>>>, <<<<<<"A">>, "1">>, <<<<"y">>, "2">>>>}
Rows ==
    [element : {<<>>, <<"a">>, <<"b">>},
     mandatory : {JsonBool(TRUE), JsonBool(FALSE), JsonStr(TRUE_), JsonStr(FALSE_)}]

\* The mapping and the direction are those that have passed the Validator.
InitAnswer ==
    /\ Quiet
    /\ arg \in [mapping : Dicts({<<"a">>, <<"b">>}, {<<"A">>, <<"z">>}, MaxPairs),
                direction : _DIRECTIONS,
                repo_raw : RepoRaws,
                sn_fields_raw : Lists(Rows, MaxRows)]
    /\ DistinctKeys(arg.mapping)
    /\ _basic_validate_mapping(arg.mapping, arg.direction) = <<>>
    /\ ret = <<>>

\* validate from `gh_fields = ...` to its return
Answer ==
    /\ Len(ret) = 0
    /\ ret' = <<MappingValidationResponse(arg.mapping, arg.direction, arg.repo_raw,
                                          arg.sn_fields_raw)>>
    /\ UNCHANGED <<mappings, integrations, secrets, aws, settings, now, req, workload, log, arg>>

NextAnswer == Answer

SpecAnswer == InitAnswer /\ [][NextAnswer]_vars

\* ------------------------------------------------------ create, call by call

MaxCalls == 2

Users == {1, 2}
OWNER_REPO == <<"o","/","r">>
NOTANOWNER == <<"n","o","t","a","n","o","w","n","e","r">>
INCIDENT == <<"i","n","c","i","d","e","n","t">>
Bidirectional_ == <<" ","B","i","d","i","r","e","c","t","i","o","n","a","l">>
SIDEWAYS == <<"s","i","d","e","w","a","y","s">>

OneToOne == <<<<<<"a">>, <<"x">>>>>>
TwoKeysOneTarget == <<<<<<"a">>, <<"x">>>>, <<<<"b">>, <<"x">>>>>>
KeyAndValueEmpty == <<<<<<>>, <<"y">>>>, <<<<"a">>, <<>>>>>>

CreateRequests ==
    [github_repo_full_name : {OWNER_REPO, NOTANOWNER},
     servicenow_table : {INCIDENT},
     label : {DEFAULT},
     direction : {BIDIRECTIONAL, GITHUB_TO_SERVICENOW, SERVICENOW_TO_GITHUB, Bidirectional_, SIDEWAYS},
     field_mapping : {<<>>, OneToOne, TwoKeysOneTarget, KeyAndValueEmpty}]

InitCreate ==
    /\ mappings = {}
    /\ integrations = <<>>
    /\ secrets = {}
    /\ aws = {}
    /\ settings = [secret_store |-> "sqlite"]
    /\ now = 1
    /\ req = <<>>
    /\ workload = [requests |-> CreateRequests]
    /\ log = <<>>
    /\ arg = <<>>
    /\ ret = <<>>

\* POST /mappings: MappingService().create(user_id=user.id, req=req)
Create ==
    \E user_id \in Users, r \in workload.requests :
        /\ Len(log) < MaxCalls
        /\ mappings' = create(mappings, user_id, r).table
        /\ log' = Append(log, [op |-> "create", user_id |-> user_id, req |-> r,
                               outcome |-> create(mappings, user_id, r).outcome,
                               trace |-> create(mappings, user_id, r).trace])
        /\ UNCHANGED <<integrations, secrets, aws, settings, now, req, workload, arg, ret>>

NextCreate == Create

SpecCreate == InitCreate /\ [][NextCreate]_vars

\* ------------------------------------------- create and list, call by call

\* The mappings table a start-up finds: the empty one that init_db() creates, or
\* one that holds rows already and that init_db() adds the columns direction and
\* field_mapping_json to. A row is what the session loads of it: the columns of
\* class Mapping.
StoredMapping(id, user_id, label) ==
    [id |-> id, user_id |-> user_id, github_repo_full_name |-> OWNER_REPO,
     servicenow_table |-> INCIDENT, label |-> label, created_at |-> id]
FoundMappings ==
    {{},
     {StoredMapping(1, 1, DEFAULT)},
     {StoredMapping(1, 1, DEFAULT), StoredMapping(2, 2, DEFAULT), StoredMapping(3, 1, <<"x">>)}}

InitList ==
    /\ mappings \in FoundMappings
    /\ integrations = <<>>
    /\ secrets = {}
    /\ aws = {}
    /\ settings = [secret_store |-> "sqlite"]
    /\ now = 1
    /\ req = <<>>
    /\ workload = [requests |-> {r \in CreateRequests :
                                    /\ r.direction \in {BIDIRECTIONAL, SIDEWAYS}
                                    /\ r.field_mapping \in {OneToOne, TwoKeysOneTarget}}]
    /\ log = <<>>
    /\ arg = <<>>
    /\ ret = <<>>

\* GET /mappings: MappingService().list(user_id=user.id)
List ==
    \E user_id \in Users :
        /\ Len(log) < MaxCalls
        /\ log' = Append(log, [op |-> "list", user_id |-> user_id, req |-> <<>>,
                               outcome |-> list(mappings, user_id), trace |-> <<"SELECT">>])
        /\ UNCHANGED <<mappings, integrations, secrets, aws, settings, now, req, workload,
                       arg, ret>>

NextList ==
    \/ Create
    \/ List

SpecList == InitList /\ [][NextList]_vars

\* --------------------------- create with the key spelled in several ways

O_R_Spaced == <<" ","o","/","r"," ">>
Default_Spaced == <<" ","d","e","f","a","u","l","t">>

KeyRequests ==
    [github_repo_full_name : {OWNER_REPO, O_R_Spaced},
     servicenow_table : {INCIDENT},
     label : {DEFAULT, <<>>, Default_Spaced},
     direction : {BIDIRECTIONAL},
     field_mapping : {OneToOne}]

InitKey ==
    /\ mappings \in FoundMappings
    /\ integrations = <<>>
    /\ secrets = {}
    /\ aws = {}
    /\ settings = [secret_store |-> "sqlite"]
    /\ now = 1
    /\ req = <<>>
    /\ workload = [requests |-> KeyRequests]
    /\ log = <<>>
    /\ arg = <<>>
    /\ ret = <<>>

SpecKey == InitKey /\ [][NextCreate]_vars

\* ------------------------------- connect, validate and auto_map, step by step

MaxTime == 4

OCTOCAT == <<<<"type", "pat">>, <<"github_user_id", "7">>, <<"github_login", "octocat">>>>
ADMIN == <<<<"instance_url", "https://dev.service-now.com/">>, <<"username", "admin">>>>

\* The exceptions a fetch raises, by their str(e).
ShortError == [text |-> "404 Client Error: Not Found", len |-> 27]
LongError == [text |-> "HTTPSConnectionPool: Max retries exceeded", len |-> MsgLimit + 1]

REPO == <<<<<<"x">>, "1">>, <<<<"y">>, "2">>>>
REPO_A == <<<<<<"A">>, "1">>>>
FIELDS == <<[element |-> <<"a">>, mandatory |-> JsonStr(TRUE_)]>>

\* The handlers that are between two steps of a call that has passed its tests and
\* has its clients: each of them still reads the time once.
InFlight ==
    Cardinality({p \in DOMAIN req : req[p].pc \in {"get_repo", "list_fields", "commit"}})

\* POST /github/connect: GithubService().connect(user_id, req)
ConnectGithub ==
    \E user_id \in workload.users, label \in workload.labels, remote \in {"ok", "error"} :
        /\ now + InFlight <= MaxTime
        /\ IF remote # "ok"
           THEN UNCHANGED <<integrations, secrets, aws, now>>
           ELSE /\ IF settings.secret_store = "sqlite"
                   THEN /\ secrets' = SqlitePut(secrets, user_id, <<"github_token", label>>).table
                        /\ aws' = aws
                        /\ integrations' =
                             Upsert(integrations, user_id, GITHUB, label, dumps(OCTOCAT),
                                    Some(SqlitePut(secrets, user_id, <<"github_token", label>>).ref),
                                    now)
                   ELSE /\ aws' = aws \cup {AwsName(user_id, <<"github_token", label>>)}
                        /\ secrets' = secrets
                        /\ integrations' =
                             Upsert(integrations, user_id, GITHUB, label, dumps(OCTOCAT),
                                    Some(AwsRef(AwsName(user_id, <<"github_token", label>>))),
                                    now)
                /\ now' = now + 1
        /\ UNCHANGED <<mappings, settings, req, workload, log, arg, ret>>

\* POST /servicenow/connect: ServiceNowService().connect(user_id, req)
ConnectServiceNow ==
    \E user_id \in workload.users, label \in workload.labels, remote \in {"ok", "error"} :
        /\ now + InFlight <= MaxTime
        /\ IF remote # "ok"
           THEN UNCHANGED <<integrations, secrets, aws, now>>
           ELSE /\ IF settings.secret_store = "sqlite"
                   THEN /\ secrets' =
                             SqlitePut(secrets, user_id, <<"servicenow_password", label>>).table
                        /\ aws' = aws
                        /\ integrations' =
                             Upsert(integrations, user_id, SERVICENOW, label, dumps(ADMIN),
                                    Some(SqlitePut(secrets, user_id,
                                                   <<"servicenow_password", label>>).ref),
                                    now)
                   ELSE /\ aws' = aws \cup {AwsName(user_id, <<"servicenow_password", label>>)}
                        /\ secrets' = secrets
                        /\ integrations' =
                             Upsert(integrations, user_id, SERVICENOW, label, dumps(ADMIN),
                                    Some(AwsRef(AwsName(user_id,
                                                        <<"servicenow_password", label>>))),
                                    now)
                /\ now' = now + 1
        /\ UNCHANGED <<mappings, settings, req, workload, log, arg, ret>>

\* POST /mappings/validate, POST /mappings/auto-map, up to the try block
Call(p) ==
    \E op \in workload.ops, user_id \in workload.users, r \in workload.requests,
       remote \in {"ok", "error"} :
        /\ req[p].pc \in {"idle", "done"}
        /\ now + InFlight <= MaxTime
        /\ req' = [req EXCEPT ![p] = Begin(op, integrations, secrets, aws, settings,
                                           user_id, r, remote)]
        /\ UNCHANGED <<mappings, integrations, secrets, aws, settings, now, workload, log,
                       arg, ret>>

\* get_repo with list_fields called whether it raised or not.
GetRepoThenListFieldsAnyway(p) ==
    /\ req[p].pc = "get_repo"
    /\ \/ \E raw \in workload.repo_raws :
            req' = [req EXCEPT ![p].pc = "list_fields", ![p].repo_raw = Some(raw),
                               ![p].trace = Append(@, "get_repo")]
       \/ \E e \in workload.exceptions :
            req' = [req EXCEPT ![p].pc = "list_fields", ![p].e = Some(e),
                               ![p].trace = Append(@, "get_repo")]
    /\ UNCHANGED <<mappings, integrations, secrets, aws, settings, now, workload, log, arg, ret>>

\* repo_raw = gh.get_repo(...): the answer, or the exception that takes the call to
\* the except block
GetRepo(p) ==
    /\ req[p].pc = "get_repo"
    /\ \/ \E raw \in workload.repo_raws :
            req' = [req EXCEPT ![p].pc = "list_fields", ![p].repo_raw = Some(raw),
                               ![p].trace = Append(@, "get_repo")]
       \/ \E e \in workload.exceptions :
            req' = [req EXCEPT ![p].pc = "commit", ![p].e = Some(e),
                               ![p].trace = Append(@, "get_repo")]
    /\ UNCHANGED <<mappings, integrations, secrets, aws, settings, now, workload, log, arg, ret>>

\* sn_fields_raw = sn.list_fields(...)
ListFields(p) ==
    /\ req[p].pc = "list_fields"
    /\ \/ \E raw \in workload.sn_fields_raws :
            req' = [req EXCEPT ![p].pc = "commit", ![p].sn_fields_raw = Some(raw),
                               ![p].trace = Append(@, "list_fields")]
       \/ \E e \in workload.exceptions :
            req' = [req EXCEPT ![p].pc = "commit", ![p].e = Some(e),
                               ![p].trace = Append(@, "list_fields")]
    /\ UNCHANGED <<mappings, integrations, secrets, aws, settings, now, workload, log, arg, ret>>

\* the assignments to gh_row and sn_row and db.commit(), in the try block or in
\* the except block
Commit(p) ==
    /\ req[p].pc = "commit"
    /\ integrations' = CommitLastTest(integrations, req[p], now)
    /\ now' = now + 1
    /\ req' = [req EXCEPT ![p].pc = "respond", ![p].trace = Append(@, "commit")]
    /\ UNCHANGED <<mappings, secrets, aws, settings, workload, log, arg, ret>>

\* raise HTTPException(...) of the except block, or the return of the response
Respond(p) ==
    /\ req[p].pc = "respond"
    /\ req' = [req EXCEPT ![p].pc = "done", ![p].outcome = Some(Outcome(req[p]))]
    /\ UNCHANGED <<mappings, integrations, secrets, aws, settings, now, workload, log, arg, ret>>

Next ==
    \/ ConnectGithub
    \/ ConnectServiceNow
    \/ \E p \in DOMAIN req : Call(p)
    \/ \E p \in DOMAIN req : GetRepo(p)
    \/ \E p \in DOMAIN req : ListFields(p)
    \/ \E p \in DOMAIN req : Commit(p)
    \/ \E p \in DOMAIN req : Respond(p)

\* The database a start-up finds: the empty one that init_db() creates; one that
\* init_db() upgrades, with a ServiceNow row that connect has not written (no
\* configuration, with or without a secret); one that the connects of an earlier
\* run under SECRET_STORE=sqlite have written.
Found ==
    {[integrations |-> <<>>, secrets |-> {}],
     [integrations |-> (<<1, SERVICENOW, DEFAULT>>
                            :> Integration(dumps(<<>>), Some(SqliteRef(1)))),
      secrets |-> {}],
     [integrations |-> (<<1, SERVICENOW, DEFAULT>> :> Integration(dumps(<<>>), None)),
      secrets |-> {}],
     [integrations |-> Upsert(Upsert(<<>>, 1, GITHUB, DEFAULT, dumps(OCTOCAT),
                                     Some(SqliteRef(1)), 0),
                              1, SERVICENOW, DEFAULT, dumps(ADMIN), Some(SqliteRef(2)), 0),
      secrets |-> {[id |-> 1, user_id |-> 1, name |-> <<"github_token", DEFAULT>>],
                   [id |-> 2, user_id |-> 1, name |-> <<"servicenow_password", DEFAULT>>]}]}

\* One handler, every kind of request.
InitOneByOne ==
    /\ mappings = {}
    /\ \E db \in Found : integrations = db.integrations /\ secrets = db.secrets
    /\ aws = {}
    /\ settings \in [secret_store : {"sqlite", "aws"}]
    /\ now = 1
    /\ workload = [users |-> {1}, labels |-> {DEFAULT}, ops |-> {"validate", "auto_map"},
                   requests |-> [github_repo_full_name : {OWNER_REPO, NOTANOWNER},
                                 servicenow_table : {INCIDENT},
                                 label : {DEFAULT},
                                 direction : {BIDIRECTIONAL, SERVICENOW_TO_GITHUB, SIDEWAYS},
                                 field_mapping : {OneToOne, TwoKeysOneTarget}],
                   exceptions |-> {ShortError, LongError},
                   repo_raws |-> {REPO, REPO_A}, sn_fields_raws |-> {FIELDS}]
    /\ req = [p \in {1} |-> Idle]
    /\ log = <<>>
    /\ arg = <<>>
    /\ ret = <<>>

SpecOneByOne == InitOneByOne /\ [][Next]_vars

\* ------------------------------- validate, auto_map: db.commit() that raises

\* The exception of a db.commit() that the database refuses, by its str(e).
DbError == [text |-> "(sqlite3.OperationalError) database is locked", len |-> 45]

\* db.commit() raises. In the try block the exception is caught by `except
\* Exception`, which assigns the failure with the exception's text and commits
\* again: that commit goes through, or raises in its turn and the exception
\* leaves the call. In the except block the exception leaves the call, the
\* HTTPException below it is not reached.
CommitFails(p) ==
    /\ req[p].pc = "commit"
    /\ \E again \in {"ok", "error"} :
        IF IsNone(req[p].e) /\ again = "ok"
        THEN /\ integrations' =
                    CommitLastTest(integrations, [req[p] EXCEPT !.e = Some(DbError)], now + 1)
             /\ now' = now + 2
             /\ req' = [req EXCEPT ![p].pc = "respond", ![p].e = Some(DbError),
                                   ![p].trace = @ \o <<"commit raised", "commit">>]
        ELSE /\ integrations' = integrations
             /\ now' = now + (IF IsNone(req[p].e) THEN 2 ELSE 1)
             /\ req' = [req EXCEPT ![p].pc = "done",
                                   ![p].outcome = Some(Uncaught(DbError.text)),
                                   ![p].trace = @ \o (IF IsNone(req[p].e)
                                                      THEN <<"commit raised", "commit raised">>
                                                      ELSE <<"commit raised">>)]
    /\ UNCHANGED <<mappings, secrets, aws, settings, workload, log, arg, ret>>

NextStatusWrite ==
    \/ Next
    \/ \E p \in DOMAIN req : CommitFails(p)

\* One handler, both bindings connected, requests that pass the tests.
InitStatusWrite ==
    /\ mappings = {}
    /\ integrations = Upsert(Upsert(<<>>, 1, GITHUB, DEFAULT, dumps(OCTOCAT),
                                    Some(SqliteRef(1)), 0),
                             1, SERVICENOW, DEFAULT, dumps(ADMIN), Some(SqliteRef(2)), 0)
    /\ secrets = {[id |-> 1, user_id |-> 1, name |-> <<"github_token", DEFAULT>>],
                  [id |-> 2, user_id |-> 1, name |-> <<"servicenow_password", DEFAULT>>]}
    /\ aws = {}
    /\ settings = [secret_store |-> "sqlite"]
    /\ now = 1
    /\ workload = [users |-> {1}, labels |-> {DEFAULT}, ops |-> {"validate", "auto_map"},
                   requests |-> [github_repo_full_name : {OWNER_REPO},
                                 servicenow_table : {INCIDENT},
                                 label : {DEFAULT},
                                 direction : {BIDIRECTIONAL},
                                 field_mapping : {OneToOne}],
                   exceptions |-> {ShortError},
                   repo_raws |-> {REPO_A}, sn_fields_raws |-> {FIELDS}]
    /\ req = [p \in {1} |-> Idle]
    /\ log = <<>>
    /\ arg = <<>>
    /\ ret = <<>>

SpecStatusWrite == InitStatusWrite /\ [][NextStatusWrite]_vars

\* ---------------------------------------------------------------------------
\* The secret stores on their own: store.put as the connect handlers call it,
\* store.get with any owner and any reference.

MaxSecrets == 3

SecretNames == {<<"github_token", DEFAULT>>, <<"servicenow_password", DEFAULT>>}

\* The references a caller can present: of either store, known or not.
Refs ==
    {SqliteRef(id) : id \in 1..(MaxSecrets + 1)}
        \cup {AwsRef(AwsName(user_id, name)) : user_id \in Users, name \in SecretNames}

\* The secret that store.get returns: the row of the table (sqlite), the secret
\* of that name in Secrets Manager (aws); None where it raises.
Revealed(cfg, table, held, user_id, ref, remote) ==
    IF StoreGet(cfg, table, held, user_id, ref, remote).raised
    THEN None
    ELSE IF cfg.secret_store = "sqlite"
    THEN Some([store |-> "sqlite",
               owner |-> (CHOOSE row \in table : row.id = ref.id /\ row.user_id = user_id).user_id,
               name |-> (CHOOSE row \in table : row.id = ref.id /\ row.user_id = user_id).name])
    ELSE Some([store |-> "aws", owner |-> ref.name[2], name |-> ref.name[3]])

InitReveal ==
    /\ mappings = {}
    /\ integrations = <<>>
    /\ secrets = {}
    /\ aws = {}
    /\ settings \in [secret_store : {"sqlite", "aws"}]
    /\ now = 1
    /\ req = <<>>
    /\ workload = <<>>
    /\ log = <<>>
    /\ arg = <<>>
    /\ ret = <<>>

\* store.put(user_id=user_id, name=name, value=...)
Put ==
    \E user_id \in Users, name \in SecretNames :
        /\ Cardinality(secrets) + Cardinality(aws) < MaxSecrets
        /\ IF settings.secret_store = "sqlite"
           THEN /\ secrets' = SqlitePut(secrets, user_id, name).table
                /\ aws' = aws
           ELSE /\ aws' = aws \cup {AwsName(user_id, name)}
                /\ secrets' = secrets
        /\ UNCHANGED <<mappings, integrations, settings, now, req, workload, log, arg, ret>>

\* store.get(user_id=user_id, ref=ref)
Get ==
    \E user_id \in Users, ref \in Refs :
        /\ arg' = <<[user_id |-> user_id, ref |-> ref]>>
        /\ ret' = <<[raised |-> StoreGet(settings, secrets, aws, user_id, ref, "ok").raised,
                     exception |-> StoreGet(settings, secrets, aws, user_id, ref, "ok").exception,
                     secret |-> Revealed(settings, secrets, aws, user_id, ref, "ok")]>>
        /\ UNCHANGED <<mappings, integrations, secrets, aws, settings, now, req, workload, log>>

NextReveal ==
    \/ Put
    \/ Get

SpecReveal == InitReveal /\ [][NextReveal]_vars

\* ---------------------------------------------------------------------------
\* DELETE /integrations/{provider}/{label}: IntegrationService().delete

MaxDeletes == 1

\* The provider column, as the characters the filter compares.
ProviderName(provider) ==
    IF provider = GITHUB THEN <<"g","i","t","h","u","b">>
    ELSE <<"s","e","r","v","i","c","e","n","o","w">>

GitHub_ == <<"G","i","t","H","u","b">>

DeleteResponse == Response([ok |-> TRUE])
IntegrationNotFound == HTTPException(404, "Integration not found", <<>>)

Without(table, gone) ==
    IF DOMAIN table \ gone = {} THEN <<>> ELSE [k \in DOMAIN table \ gone |-> table[k]]

\* delete with the owner left out of the filter on the integrations.
deleteOfAnyOwner(table, stored, user_id, provider, label) ==
    LET found == {k \in DOMAIN table :
                    /\ ProviderName(k[2]) = lower(strip(provider))
                    /\ k[3] = strip(IF label = <<>> THEN DEFAULT ELSE label)}
    IN  IF found = {}
        THEN [table |-> table, stored |-> stored, outcome |-> IntegrationNotFound]
        ELSE [table |-> Without(table, found), stored |-> stored, outcome |-> DeleteResponse]

\* IntegrationService.delete(user_id, provider, label): the row of the owner with
\* the provider lower-cased and the label trimmed; the sqlite secret it refers to,
\* if the owner has it, and the row are deleted and committed together.
delete(table, stored, user_id, provider, label) ==
    LET found == {k \in DOMAIN table :
                    /\ k[1] = user_id
                    /\ ProviderName(k[2]) = lower(strip(provider))
                    /\ k[3] = strip(IF label = <<>> THEN DEFAULT ELSE label)}
        key == CHOOSE k \in found : TRUE
        ref == table[key].secret_ref
    IN  IF found = {}
        THEN [table |-> table, stored |-> stored, outcome |-> IntegrationNotFound]
        ELSE [table |-> Without(table, {key}),
              stored |-> IF ~IsNone(ref) /\ ref[1].store = "sqlite"
                         THEN {srow \in stored :
                                 ~(srow.id = ref[1].id /\ srow.user_id = user_id)}
                         ELSE stored,
              outcome |-> DeleteResponse]

\* A delete request is served while no validate or auto_map call is between its
\* lookups and its commit.
Delete ==
    \E user_id \in Users, provider \in {ProviderName(GITHUB), GitHub_,
                                                 ProviderName(SERVICENOW)},
       label \in workload.labels :
        /\ InFlight = 0
        /\ Len(log) < MaxDeletes
        /\ integrations' = delete(integrations, secrets, user_id, provider, label).table
        /\ secrets' = delete(integrations, secrets, user_id, provider, label).stored
        /\ log' = Append(log, [user_id |-> user_id, provider |-> provider, label |-> label,
                               outcome |-> delete(integrations, secrets, user_id, provider,
                                                  label).outcome])
        /\ UNCHANGED <<mappings, aws, settings, now, req, workload, arg, ret>>

NextDelete ==
    \/ Next
    \/ Delete

\* The database that the connects of both owners have written, under either
\* secret store.
ConnectedWith(store) ==
    LET ref(user_id, provider) ==
            IF store = "sqlite"
            THEN SqliteRef(2 * (user_id - 1) + (IF provider = GITHUB THEN 1 ELSE 2))
            ELSE AwsRef(AwsName(user_id, <<(IF provider = GITHUB THEN "github_token"
                                            ELSE "servicenow_password"), DEFAULT>>))
    IN  [integrations |->
            [k \in Users \X {GITHUB, SERVICENOW} \X {DEFAULT} |->
                [config_json |-> dumps(IF k[2] = GITHUB THEN OCTOCAT ELSE ADMIN),
                 secret_ref |-> Some(ref(k[1], k[2]))] @@ Passed(0)],
         secrets |->
            IF store = "sqlite"
            THEN {[id |-> ref(user_id, provider).id, user_id |-> user_id,
                   name |-> <<(IF provider = GITHUB THEN "github_token"
                               ELSE "servicenow_password"), DEFAULT>>] :
                     user_id \in Users, provider \in {GITHUB, SERVICENOW}}
            ELSE {},
         aws |->
            IF store = "sqlite" THEN {}
            ELSE {ref(user_id, provider).name :
                    user_id \in Users, provider \in {GITHUB, SERVICENOW}}]

InitDelete ==
    /\ mappings = {}
    /\ settings \in [secret_store : {"sqlite", "aws"}]
    /\ integrations = ConnectedWith(settings.secret_store).integrations
    /\ secrets = ConnectedWith(settings.secret_store).secrets
    /\ aws = ConnectedWith(settings.secret_store).aws
    /\ now = 3
    /\ workload = [users |-> {1}, labels |-> {DEFAULT}, ops |-> {"validate", "auto_map"},
                   requests |-> [github_repo_full_name : {OWNER_REPO},
                                 servicenow_table : {INCIDENT},
                                 label : {DEFAULT},
                                 direction : {BIDIRECTIONAL, SIDEWAYS},
                                 field_mapping : {OneToOne}],
                   exceptions |-> {ShortError},
                   repo_raws |-> {REPO_A}, sn_fields_raws |-> {FIELDS}]
    /\ req = [p \in {1} |-> Idle]
    /\ log = <<>>
    /\ arg = <<>>
    /\ ret = <<>>

SpecDelete == InitDelete /\ [][NextDelete]_vars

\* ---------------------------------------------------------------------------
\* All four operations on mappings, over a database that holds mappings already.

NextFrame ==
    \/ Next
    \/ Create
    \/ List

InitFrame ==
    /\ mappings \in FoundMappings \ {{}}
    /\ integrations = ConnectedWith("sqlite").integrations
    /\ secrets = ConnectedWith("sqlite").secrets
    /\ aws = {}
    /\ settings = [secret_store |-> "sqlite"]
    /\ now = 3
    /\ workload = [users |-> {1}, labels |-> {DEFAULT}, ops |-> {"validate", "auto_map"},
                   requests |-> [github_repo_full_name : {OWNER_REPO},
                                 servicenow_table : {INCIDENT},
                                 label : {DEFAULT},
                                 direction : {BIDIRECTIONAL},
                                 field_mapping : {OneToOne}],
                   exceptions |-> {ShortError},
                   repo_raws |-> {REPO_A}, sn_fields_raws |-> {FIELDS}]
    /\ req = [p \in {1} |-> Idle]
    /\ log = <<>>
    /\ arg = <<>>
    /\ ret = <<>>

SpecFrame == InitFrame /\ [][NextFrame]_vars

\* Two handlers at once, requests that pass the tests.
Init ==
    /\ mappings = {}
    /\ integrations = <<>>
    /\ secrets = {}
    /\ aws = {}
    /\ settings = [secret_store |-> "sqlite"]
    /\ now = 1
    /\ workload = [users |-> {1}, labels |-> {DEFAULT}, ops |-> {"validate", "auto_map"},
                   requests |-> [github_repo_full_name : {OWNER_REPO},
                                 servicenow_table : {INCIDENT},
                                 label : {DEFAULT},
                                 direction : {BIDIRECTIONAL},
                                 field_mapping : {OneToOne}],
                   exceptions |-> {ShortError, LongError},
                   repo_raws |-> {REPO}, sn_fields_raws |-> {FIELDS}]
    /\ req = [p \in {1, 2} |-> Idle]
    /\ log = <<>>
    /\ arg = <<>>
    /\ ret = <<>>

Spec == Init /\ [][Next]_vars


\* The rules of the Validator, stated on the mapping itself.
EmptyKeyItems(m) == {i \in 1..Len(m) : strip(m[i][1]) = <<>>}
EmptyValueItems(m) == {i \in 1..Len(m) : strip(m[i][2]) = <<>>}
RepeatedTargets(m) == {m[i][2] : i \in {j \in 1..Len(m) : \E h \in 1..Len(m) : h # j /\ m[h][2] = m[j][2]}}
Occurrences(e, errors) == Cardinality({i \in 1..Len(errors) : errors[i] = e})
Range(s) == {s[i] : i \in 1..Len(s)}

\* C1: for every mapping and direction the Validator raises exactly when a rule is
\* violated (a key or a value empty after trimming, or a repeated target under
\* bidirectional), and its errors hold one entry per empty key, one entry per empty
\* value naming its key, and one entry for the repeated targets: all of them, not
\* the first only. {"": "y", "a": ""} gives two different entries.
C1_ValidatorListsEveryViolation ==
    Len(ret) = 1 =>
        LET m == arg.mapping
            errors == ret[1].errors
            repeated == arg.direction = BIDIRECTIONAL /\ RepeatedTargets(m) # {}
            duplicateEntries == {i \in 1..Len(errors) : errors[i].targets # <<>>}
        IN  /\ ret[1].raised <=> (EmptyKeyItems(m) # {} \/ EmptyValueItems(m) # {} \/ repeated)
            /\ Occurrences(KeyEmptyError, errors) = Cardinality(EmptyKeyItems(m))
            /\ \A i \in EmptyValueItems(m) : Occurrences(ValueEmptyError(m[i][1]), errors) = 1
            /\ Cardinality(duplicateEntries) = (IF repeated THEN 1 ELSE 0)
            /\ Len(errors) = Cardinality(EmptyKeyItems(m)) + Cardinality(EmptyValueItems(m))
                                + (IF repeated THEN 1 ELSE 0)
            /\ m = KeyAndValueEmpty => Len(errors) = 2 /\ errors[1] # errors[2]

C1_Witness ==
    /\ Len(ret) = 1
    /\ arg.mapping = KeyAndValueEmpty
    /\ ret[1].raised
    /\ ret[1].errors = <<KeyEmptyError, ValueEmptyError(<<"a">>)>>

\* C2: a mapping in which one target is the value of two keys is refused under
\* bidirectional, by an entry that names every repeated target once; under the two
\* one-directional directions no such entry is made, and the mapping is accepted
\* when its keys and values are not empty.
C2_InjectivityOnlyBidirectional ==
    Len(ret) = 1 /\ RepeatedTargets(arg.mapping) # {} =>
        LET m == arg.mapping
            errors == ret[1].errors
            duplicateEntries == {i \in 1..Len(errors) : errors[i].targets # <<>>}
        IN  /\ arg.direction = BIDIRECTIONAL =>
                    /\ ret[1].raised
                    /\ \E i \in 1..Len(errors) :
                            /\ duplicateEntries = {i}
                            /\ Range(errors[i].targets) = RepeatedTargets(m)
                            /\ Len(errors[i].targets) = Cardinality(RepeatedTargets(m))
            /\ arg.direction # BIDIRECTIONAL =>
                    /\ duplicateEntries = {}
                    /\ (EmptyKeyItems(m) = {} /\ EmptyValueItems(m) = {}) => ~ret[1].raised

C2_Witness ==
    /\ Len(ret) = 1
    /\ arg.mapping = TwoKeysOneTarget
    /\ arg.direction = BIDIRECTIONAL
    /\ ret[1].raised
    /\ ret[1].errors = <<DuplicateError({<<"x">>})>>

\* ---------------------------------------------------------------- create

HasOwnerNameShape(r) == In("/", r.github_repo_full_name)
PassesValidator(m, direction) ==
    /\ EmptyKeyItems(m) = {}
    /\ EmptyValueItems(m) = {}
    /\ direction = BIDIRECTIONAL => RepeatedTargets(m) = {}
\* The preconditions of create_mapping as the spec lists them.
Acceptable(r) ==
    /\ HasOwnerNameShape(r)
    /\ r.direction \in _DIRECTIONS
    /\ PassesValidator(r.field_mapping, r.direction)
KeyOf(e) ==
    <<e.user_id, strip(e.req.github_repo_full_name), strip(e.req.servicenow_table),
      IF strip(e.req.label) = <<>> THEN DEFAULT ELSE strip(e.req.label)>>
Creates == {i \in 1..Len(log) : log[i].op = "create"}
Succeeded(i) == log[i].outcome.status_code = 200

\* C3: no two persisted mappings share (owner, repository, table, label); the second
\* of two acceptable create_mapping calls with the same key ends in Conflict (409),
\* and at most one of them succeeds.
C3_UniqueKeySecondConflicts ==
    /\ \A r1, r2 \in mappings : MappingKey(r1) = MappingKey(r2) => r1 = r2
    /\ \A i, j \in Creates :
        (i < j /\ KeyOf(log[i]) = KeyOf(log[j]) /\ Acceptable(log[i].req) /\ Acceptable(log[j].req))
            => /\ log[j].outcome.status_code = 409
               /\ ~(Succeeded(i) /\ Succeeded(j))

\* C5: an acceptable create_mapping whose key is not yet persisted adds one row and
\* returns it: an identifier, a creation time, the direction and the field_mapping
\* that were supplied.
C5_CreatePersistsAndReturns ==
    /\ Cardinality(mappings) = Cardinality({i \in Creates : Succeeded(i)})
    /\ \A i \in Creates :
        (Acceptable(log[i].req) /\ ~\E h \in Creates : h < i /\ Succeeded(h) /\ KeyOf(log[h]) = KeyOf(log[i]))
            => /\ Succeeded(i)
               /\ log[i].outcome.body[1].direction = log[i].req.direction
               /\ log[i].outcome.body[1].field_mapping = log[i].req.field_mapping
               /\ \E row \in mappings :
                    /\ row.id = log[i].outcome.body[1].id
                    /\ row.created_at = log[i].outcome.body[1].created_at
                    /\ MappingKey(row) = KeyOf(log[i])

\* The call a step has just served.
Served == log'[Len(log')]
ServedCreate == Len(log') = Len(log) + 1 /\ Served.op = "create"
NothingPersisted == Served.trace = <<>> /\ mappings' = mappings

AsServed(direction) == lower(strip(direction))

TakesUp(p) == req[p].pc \in {"idle", "done"} /\ req'[p].pc # "idle" /\ req'[p] # req[p]
TakenUp(p) == req'[p]
Asked(c) == c.r[1]
Fetches(c) == {i \in 1..Len(c.trace) : c.trace[i] \in {"get_repo", "list_fields"}}
Lookups(c) ==
    {i \in 1..Len(c.trace) : c.trace[i] \in {"query github", "query servicenow", "store.get"}}
StatusUpdates(c) == {i \in 1..Len(c.trace) : c.trace[i] = "commit"}
\* A call that has passed the tests on the repository, the direction and, for
\* validate, the mapping.
PassesTests(c) ==
    /\ HasOwnerNameShape(Asked(c))
    /\ AsServed(Asked(c).direction) \in _DIRECTIONS
    /\ c.op = "validate" => PassesValidator(Asked(c).field_mapping, AsServed(Asked(c).direction))
BindingKey(c, provider) == <<c.user_id, provider, Asked(c).label>>
Connected(table, key) == key \in DOMAIN table /\ ~IsNone(table[key].secret_ref)

\* C7: validate_mapping tests the shape of the repository first, then runs the
\* Validator on the supplied mapping for the direction, and only then resolves
\* credentials and fetches: a call refused for the shape or by the Validator has
\* looked up no credential, fetched nothing and updated no status.
C7_TestsBeforeLookups ==
    [][\A p \in DOMAIN req :
        (TakesUp(p) /\ TakenUp(p).op = "validate") =>
            /\ ~HasOwnerNameShape(Asked(TakenUp(p))) =>
                    /\ TakenUp(p).outcome = Some(RepoShapeError)
                    /\ TakenUp(p).trace = <<>>
                    /\ integrations' = integrations
            /\ (/\ HasOwnerNameShape(Asked(TakenUp(p)))
                /\ AsServed(Asked(TakenUp(p)).direction) \in _DIRECTIONS
                /\ ~PassesValidator(Asked(TakenUp(p)).field_mapping,
                                    AsServed(Asked(TakenUp(p)).direction))) =>
                    /\ TakenUp(p).pc = "done"
                    /\ TakenUp(p).outcome[1].status_code = 400
                    /\ TakenUp(p).outcome[1].errors # <<>>
                    /\ TakenUp(p).trace = <<>>
                    /\ integrations' = integrations
            /\ Lookups(TakenUp(p)) # {} => PassesTests(TakenUp(p))]_vars

\* A validate refused for a mapping that is not injective under bidirectional, with
\* both bindings connected and untouched.
C7_Witness ==
    \E p \in DOMAIN req :
        /\ req[p].pc = "done"
        /\ req[p].op = "validate"
        /\ Asked(req[p]).github_repo_full_name = OWNER_REPO
        /\ Asked(req[p]).direction = BIDIRECTIONAL
        /\ Asked(req[p]).field_mapping = TwoKeysOneTarget
        /\ req[p].outcome[1].errors # <<>>
        /\ req[p].trace = <<>>
        /\ Connected(integrations, BindingKey(req[p], GITHUB))
        /\ Connected(integrations, BindingKey(req[p], SERVICENOW))
        /\ integrations[BindingKey(req[p], GITHUB)].last_test_ok = Some(TRUE)

\* The status that the commit of a call is to leave on a binding.
Recorded(row, c, t) ==
    /\ row.last_tested_at = Some(t)
    /\ IF IsNone(c.e)
       THEN row.last_test_ok = Some(TRUE) /\ row.last_test_message = Some(OK)
       ELSE /\ row.last_test_ok = Some(FALSE)
            /\ row.last_test_message[1].text = c.e[1].text
            /\ row.last_test_message[1].len <= 500
            /\ row.last_test_message[1].len <= c.e[1].len

\* C8: a validate_mapping or auto_map call that has reached the fetches updates the
\* last-test status of both bindings in one transaction before its result or error
\* is produced: failure with a message of at most 500 characters if a fetch threw,
\* whichever it was, success otherwise.
C8_StatusOfBothBindingsRecorded ==
    [][\A p \in DOMAIN req :
        /\ (req[p].pc = "commit" /\ req'[p].pc = "respond") =>
                /\ Recorded(integrations'[BindingKey(req[p], GITHUB)], req[p], now)
                /\ Recorded(integrations'[BindingKey(req[p], SERVICENOW)], req[p], now)
        /\ (IsNone(req[p].outcome) /\ ~IsNone(req'[p].outcome) /\ Fetches(req'[p]) # {}) =>
                /\ Cardinality(StatusUpdates(req'[p])) = 1
                /\ \A i \in Fetches(req'[p]), j \in StatusUpdates(req'[p]) : i < j]_vars

\* The secret of a binding cannot be revealed: its reference is of the other store,
\* or the store holds nothing under it for this user.
Unrevealable(table, key) ==
    \/ table[key].secret_ref[1].store # settings.secret_store
    \/ /\ settings.secret_store = "sqlite"
       /\ ~\E row \in secrets :
            row.id = table[key].secret_ref[1].id /\ row.user_id = key[1]
    \/ /\ settings.secret_store = "aws"
       /\ table[key].secret_ref[1].name \notin aws
Incomplete(table, key) ==
    \/ Lacks(loads(table[key].config_json), "instance_url")
    \/ Lacks(loads(table[key].config_json), "username")
\* A call whose credentials cannot be resolved, by the state it is taken up in.
Unresolvable(table, c) ==
    \/ ~Connected(table, BindingKey(c, GITHUB))
    \/ Unrevealable(table, BindingKey(c, GITHUB))
    \/ ~Connected(table, BindingKey(c, SERVICENOW))
    \/ Incomplete(table, BindingKey(c, SERVICENOW))
    \/ Unrevealable(table, BindingKey(c, SERVICENOW))
\* A call that has ended while it resolved its credentials.
EndedInLookups(c) == c.pc = "done" /\ Lookups(c) # {} /\ Fetches(c) = {}
FailureRecorded(table, key) ==
    key \in DOMAIN table => table[key].last_test_ok = Some(FALSE)

\* C9 as claimed: a call that fails while it resolves its credentials still records
\* the failure status on both bindings before the error reaches the caller.
C9_FailureRecordedAsClaimed ==
    [][\A p \in DOMAIN req :
        (TakesUp(p) /\ EndedInLookups(TakenUp(p))) =>
            /\ TakenUp(p).outcome[1].status_code >= 400
            /\ FailureRecorded(integrations', BindingKey(TakenUp(p), GITHUB))
            /\ FailureRecorded(integrations', BindingKey(TakenUp(p), SERVICENOW))]_vars

\* C9, amended: a validate_mapping or auto_map call that fails while it resolves its
\* credentials (a binding absent or without secret, the configuration incomplete,
\* the secret not revealed) ends with the error at once: no fetch is attempted and
\* no status is recorded, the bindings stay as they were.
C9_LookupFailureEndsTheCall ==
    [][\A p \in DOMAIN req :
        TakesUp(p) =>
            /\ (PassesTests(TakenUp(p)) /\ Unresolvable(integrations, TakenUp(p))) =>
                    EndedInLookups(TakenUp(p))
            /\ EndedInLookups(TakenUp(p)) =>
                    /\ TakenUp(p).outcome[1].status_code >= 400
                    /\ StatusUpdates(TakenUp(p)) = {}
                    /\ integrations' = integrations]_vars

\* A call ended by a secret that the store does not reveal, the repository binding
\* still recorded as passed.
C9_Witness ==
    \E p \in DOMAIN req :
        /\ EndedInLookups(req[p])
        /\ req[p].trace = <<"query github", "store.get">>
        /\ req[p].outcome[1].status_code = 500
        /\ Connected(integrations, BindingKey(req[p], GITHUB))
        /\ Unrevealable(integrations, BindingKey(req[p], GITHUB))
        /\ integrations[BindingKey(req[p], GITHUB)].last_test_ok = Some(TRUE)

Alphanumeric == {Digits[i] : i \in 1..10} \cup {Upper[i] : i \in 1..26} \cup {Lower[i] : i \in 1..26}
IsAlphanumeric(c) == c \in Alphanumeric
SameLetter(c, d) == c = d \/ \E i \in 1..26 : {c, d} = {Upper[i], Lower[i]}

\* Two names that differ only in case or in characters that are not alphanumeric.
Alike(x, y) ==
    LET u == SelectSeq(x, IsAlphanumeric)
        v == SelectSeq(y, IsAlphanumeric)
    IN  Len(u) = Len(v) /\ \A i \in 1..Len(u) : SameLetter(u[i], v[i])

\* C18: normalize(normalize(x)) = normalize(x) for every field name x, and two
\* names that differ only in case or in non-alphanumeric characters normalize to
\* the same key.
C18_NormalizeIdempotentIgnoringCaseAndPunctuation ==
    Len(ret) = 1 =>
        /\ ret[1].twice = ret[1].once
        /\ \A y \in Strs(NameChars, MaxName) :
               Alike(arg.name, y) => _normalize_name(y) = ret[1].once

C18_Witness ==
    /\ arg.name = <<"A", "_", "b">>
    /\ ret = <<[once |-> <<"a", "b">>, twice |-> <<"a", "b">>]>>

\* ------------------------------------------------------------------ C14

\* A repository field whose normalized name is that of sn; one whose normalized
\* name is that of a synonym candidate of sn.
ExactCandidates(sn, gh_fields) ==
    {i \in 1..Len(gh_fields) : _normalize_name(gh_fields[i]) = _normalize_name(sn)}
SynonymCandidates(sn, gh_fields) ==
    {i \in 1..Len(gh_fields) :
        \E j \in 1..Len(synonyms(_normalize_name(sn))) :
            _normalize_name(gh_fields[i]) = _normalize_name(synonyms(_normalize_name(sn))[j])}

\* The strategies the notes of a result name for sn.
Strategies(out, sn) == {out.notes[n].how : n \in {n \in 1..Len(out.notes) : out.notes[n].sn = sn}}

\* C14: for every table field the Matcher tries exact normalized match, then
\* synonym lookup, then fuzzy match, and stops at the first success: a field with
\* the same normalized name is taken even when a synonym or fuzzy candidate is
\* there, and a fuzzy match is used only when neither of the others succeeded.
C14_ExactThenSynonymThenFuzzy ==
    Len(ret) >= 1 =>
        \A k \in 1..Len(arg.sn_fields) :
            LET sn == arg.sn_fields[k]
                out == ret[1]
                exact == ExactCandidates(sn, arg.gh_fields)
                synonym == SynonymCandidates(sn, arg.gh_fields)
            IN  /\ exact # {} =>
                       /\ InDict(sn, out.mapping)
                       /\ \E i \in exact : DictGet(out.mapping, sn) = arg.gh_fields[i]
                       /\ Strategies(out, sn) = {"by name"}
                /\ exact = {} /\ synonym # {} =>
                       /\ InDict(sn, out.mapping)
                       /\ \E i \in synonym : DictGet(out.mapping, sn) = arg.gh_fields[i]
                       /\ Strategies(out, sn) = {"via synonym"}
                /\ "AI fuzzy matched" \in Strategies(out, sn) =>
                       /\ exact = {} /\ synonym = {}
                       /\ Strategies(out, sn) = {"AI fuzzy matched"}

\* short_description has a field of its name, a synonym and a fuzzy candidate;
\* summary a synonym and a fuzzy candidate.
C14_Witness ==
    /\ Len(ret) >= 1
    /\ arg.sn_fields = <<SHORT_DESCRIPTION, SUMMARY>>
    /\ arg.gh_fields = <<DESCRIPTION, ShortDescription, SUMMAR>>
    /\ ret[1].mapping = <<<<SHORT_DESCRIPTION, ShortDescription>>, <<SUMMARY, DESCRIPTION>>>>
    /\ Truthy(_fuzzy_match(_normalize_name(SHORT_DESCRIPTION), GhNormMap(<<DESCRIPTION>>))[1])
    /\ Truthy(_fuzzy_match(_normalize_name(SUMMARY), GhNormMap(<<SUMMAR>>))[1])

\* ------------------------------------------------------------------ C15

\* The candidates of sn in their listed order, and the first of them that some
\* repository field has the normalized name of.
PresentCandidates(sn, gh_fields) ==
    {j \in 1..Len(synonyms(_normalize_name(sn))) :
        \E i \in 1..Len(gh_fields) :
            _normalize_name(gh_fields[i]) = _normalize_name(synonyms(_normalize_name(sn))[j])}

\* C15: in synonym lookup the candidates of a table field are tried in their
\* listed order and the first candidate present (after normalization) among the
\* repository fields wins, with a note of a synonym match; short_description and
\* priority against description, name, language give exactly
\* {short_description: description} by synonym, priority left out.
C15_FirstListedSynonymWins ==
    Len(ret) >= 1 =>
        /\ \A k \in 1..Len(arg.sn_fields) :
               LET sn == arg.sn_fields[k]
                   present == PresentCandidates(sn, arg.gh_fields)
                   winner == synonyms(_normalize_name(sn))[SetMin(present)]
               IN  ExactCandidates(sn, arg.gh_fields) = {} /\ present # {} =>
                       /\ InDict(sn, ret[1].mapping)
                       /\ _normalize_name(DictGet(ret[1].mapping, sn)) = _normalize_name(winner)
                       /\ \E n \in 1..Len(ret[1].notes) :
                              ret[1].notes[n] =
                                  [how |-> "via synonym", sn |-> sn,
                                   chosen |-> DictGet(ret[1].mapping, sn), score |-> 0]
        /\ arg.sn_fields = <<SHORT_DESCRIPTION, PRIORITY>>
             /\ {arg.gh_fields[i] : i \in 1..Len(arg.gh_fields)} = {DESCRIPTION, NAME, LANGUAGE}
             /\ Len(arg.gh_fields) = 3 =>
               /\ ret[1].mapping = <<<<SHORT_DESCRIPTION, DESCRIPTION>>>>
               /\ ret[1].notes = <<MappedViaSynonym(SHORT_DESCRIPTION, DESCRIPTION)>>

\* The scenario, with name listed before description among the repository fields.
C15_Witness ==
    /\ Len(ret) >= 1
    /\ arg.sn_fields = <<SHORT_DESCRIPTION, PRIORITY>>
    /\ arg.gh_fields = <<NAME, DESCRIPTION, LANGUAGE>>
    /\ PresentCandidates(SHORT_DESCRIPTION, arg.gh_fields) = {1, 2}
    /\ ret[1].mapping = <<<<SHORT_DESCRIPTION, DESCRIPTION>>>>

\* ------------------------------------------------------------------ C16

\* The similarity of the table field's normalized name to each repository
\* field's normalized name.
Similarities ==
    {ratio(arg.norm_sn, _normalize_name(arg.gh_fields[i])) : i \in 1..Len(arg.gh_fields)}

\* C16: the fuzzy strategy takes the maximum similarity between the table
\* field's normalized name and every repository field's normalized name and
\* accepts it if and only if that maximum is at least 0.78: exactly 0.78
\* matches, any score below it does not, and with no repository fields there is
\* no match.
C16_MaximumAcceptedFromThreshold ==
    Len(ret) = 1 =>
        LET accepted == ret[1][1] # <<>>
        IN  /\ accepted <=> \E s \in Similarities : 100 * s[1] >= 78 * s[2]
            /\ accepted =>
                   /\ \E i \in 1..Len(arg.gh_fields) : ret[1][1][1] = arg.gh_fields[i]
                   /\ ratio(arg.norm_sn, _normalize_name(ret[1][1][1])) = ret[1][2]
                   /\ \A s \in Similarities : ret[1][2][1] * s[2] >= s[1] * ret[1][2][2]
            /\ arg.gh_fields = <<>> => ~accepted

\* Two names of 50 characters with 39 in common: 2 * 39 / 100 is exactly 0.78.
C16_Witness ==
    /\ Len(ret) = 1
    /\ Len(arg.norm_sn) = 50
    /\ Len(arg.gh_fields) = 1
    /\ Len(arg.gh_fields[1]) = 51
    /\ _normalize_name(arg.gh_fields[1]) # arg.norm_sn
    /\ ret[1] = <<<<arg.gh_fields[1]>>, <<78, 100>>>>

\* ------------------------------------------------------------------ C17

\* The table fields of the call that the result matched by the fuzzy strategy.
FuzzyMatchedFields(out) ==
    {arg.sn_fields[k] : k \in {k \in 1..Len(arg.sn_fields) :
                                 "AI fuzzy matched" \in Strategies(out, arg.sn_fields[k])}}

\* The similarity of sn to the i-th repository field, and the places of the
\* repository fields of maximal similarity.
Similarity(sn, i) == ratio(_normalize_name(sn), _normalize_name(arg.gh_fields[i]))
Maximal(sn) ==
    {i \in 1..Len(arg.gh_fields) :
        \A j \in 1..Len(arg.gh_fields) : ~Greater(Similarity(sn, j), Similarity(sn, i))}

LiveTableFields == {arg.sn_fields_raw[i].element : i \in 1..Len(arg.sn_fields_raw)} \ {<<>>}
LiveRepoFields == {arg.repo_raw[i][1] : i \in 1..Len(arg.repo_raw)}

\* C11: for every successful validate_mapping call, missing_table_fields is
\* exactly the keys of the caller's mapping that are not in the live table field
\* list, missing_repo_fields is exactly the values that are not in the live
\* repository field set, and ok is true if and only if both lists are empty,
\* whatever the warnings contain.
C11_MissingFieldsAndOk ==
    Len(ret) = 1 =>
        /\ ret[1].missing_servicenow_fields =
               SelectSeq(keys(arg.mapping), LAMBDA k : k \notin LiveTableFields)
        /\ ret[1].missing_github_fields =
               SelectSeq(values(arg.mapping), LAMBDA v : v \notin LiveRepoFields)
        /\ ret[1].ok <=> (ret[1].missing_servicenow_fields = <<>>
                          /\ ret[1].missing_github_fields = <<>>)

\* A call with a value that the repository lacks, and a note among its warnings.
C11_Witness ==
    /\ Len(ret) = 1
    /\ arg.mapping = <<<<<<"a">>, <<"A">>>>, <<<<"b">>, <<"z">>>>>>
    /\ arg.repo_raw = <<<<<<"A">>, "1">>>>
    /\ arg.sn_fields_raw = <<[element |-> <<"a">>, mandatory |-> JsonBool(TRUE)],
                             [element |-> <<"b">>, mandatory |-> JsonBool(FALSE)]>>
    /\ ret[1].missing_servicenow_fields = <<>>
    /\ ret[1].missing_github_fields = <<<<"z">>>>
    /\ ~ret[1].ok
    /\ ret[1].warnings # <<>>

\* ------------------------------------------------------------------ C12

\* The live table fields whose required flag is set and that are no key of the
\* caller's mapping, in the order of the table's rows.
IsRequired(row) == row.mandatory \in {JsonBool(TRUE), JsonStr(TRUE_)}
MissingRequiredFields ==
    LET rows == SelectSeq(arg.sn_fields_raw,
                          LAMBDA row : IsRequired(row) /\ ~InDict(row.element, arg.mapping))
    IN  [i \in 1..Len(rows) |-> rows[i].element]

\* C12: in validate_mapping the warnings are one missing-required warning,
\* present if and only if the direction is repo_to_table or bidirectional and a
\* live table field whose required flag is set is absent from the caller's
\* mapping keys, naming exactly those fields comma-joined, followed by the
\* Matcher's notes in order; no such warning for table_to_repo, and a live field
\* whose required flag is not set is never named.
C12_WarningsNameTheRequiredFields ==
    Len(ret) = 1 =>
        ret[1].warnings =
            (IF arg.direction \in {GITHUB_TO_SERVICENOW, BIDIRECTIONAL}
                /\ MissingRequiredFields # <<>>
             THEN <<[how |-> "Missing required ServiceNow fields",
                     sn |-> join(<<",", " ">>, MissingRequiredFields),
                     chosen |-> <<>>, score |-> 0]>>
             ELSE <<>>)
            \o _suggest_mapping(Elements(arg.sn_fields_raw, "element"),
                                keys(arg.repo_raw)).notes

\* ------------------------------------------------------------------ C13

\* The call p has taken up, as validate would have taken it up with no mapping to
\* test, under either way the secret store can answer.
AsValidate(c) ==
    {[Begin("validate", integrations, secrets, aws, settings, c.user_id,
            [Asked(c) EXCEPT !.field_mapping = <<>>], remote)
        EXCEPT !.op = c.op, !.r = c.r] : remote \in {"ok", "error"}}

\* The Matcher's result over the live schemas of a call.
MatcherOutput(c) ==
    _suggest_mapping(
        SelectSeq([i \in 1..Len(c.sn_fields_raw[1]) |-> c.sn_fields_raw[1][i].element],
                  LAMBDA name : name # <<>>),
        [i \in 1..Len(c.repo_raw[1]) |-> c.repo_raw[1][i][1]])

\* C13: auto_map has the same repository-shape, direction, credential and fetch
\* failure behaviour as validate_mapping, and whenever both fetches succeed it
\* returns ok = true with exactly the Matcher's mapping and notes over the live
\* schemas, for every direction.
C13_AutoMapAsValidateThenMatcher ==
    [][\A p \in DOMAIN req :
        /\ (TakesUp(p) /\ TakenUp(p).op = "auto_map") => TakenUp(p) \in AsValidate(TakenUp(p))
        /\ (req[p].op = "auto_map" /\ req[p].pc = "commit" /\ req'[p].pc = "respond") =>
               integrations' = CommitLastTest(integrations, [req[p] EXCEPT !.op = "validate"], now)
        /\ (req[p].op = "auto_map" /\ req[p].pc = "respond" /\ req'[p].pc = "done") =>
               IF IsNone(req[p].e)
               THEN /\ Fetches(req[p]) # {}
                    /\ req'[p].outcome[1].status_code = 200
                    /\ req'[p].outcome[1].body =
                           <<[ok |-> TRUE, mapping |-> MatcherOutput(req[p]).mapping,
                              notes |-> MatcherOutput(req[p]).notes]>>
               ELSE /\ req'[p].outcome[1].status_code =
                           Outcome([req[p] EXCEPT !.op = "validate"]).status_code
                    /\ req'[p].outcome[1].cause =
                           Outcome([req[p] EXCEPT !.op = "validate"]).cause
                    /\ req'[p].outcome[1].body = <<>>
    ]_vars

\* auto_map under table_to_repo has returned {a: A} and the note of the match by name.
C13_Witness ==
    /\ req[1].op = "auto_map"
    /\ req[1].pc = "done"
    /\ req[1].r[1].direction = SERVICENOW_TO_GITHUB
    /\ req[1].repo_raw = Some(REPO_A)
    /\ req[1].outcome =
           Some(Response([ok |-> TRUE, mapping |-> <<<<<<"a">>, <<"A">>>>>>,
                          notes |-> <<MatchedByName(<<"a">>, <<"A">>)>>]))

\* ------------------------------------------------------------------ C20

\* The remote fetches a call has attempted, in their order.
Attempted(c) == SelectSeq(c.trace, LAMBDA step : step \in {"get_repo", "list_fields"})
\* What the call has done since its last fetch.
SinceLastFetch(c) == SubSeq(c.trace, SetMax(Fetches(c)) + 1, Len(c.trace))

\* C20: within one validate_mapping or auto_map call each remote fetch is
\* attempted at most once, the repository fetch precedes the table-field fetch,
\* no retry follows a failure, and a failure of the repository fetch surfaces
\* immediately as RemoteFetchFailed without the table-field fetch being attempted.
C20_EachFetchOnceInOrderNoRetry ==
    \A p \in DOMAIN req :
        LET c == req[p]
        IN  /\ Attempted(c) \in {<<>>, <<"get_repo">>, <<"get_repo", "list_fields">>}
            /\ ~IsNone(c.e) =>
                   /\ Attempted(c) = (IF IsNone(c.repo_raw) THEN <<"get_repo">>
                                      ELSE <<"get_repo", "list_fields">>)
                   /\ IsNone(c.sn_fields_raw)
                   /\ c.pc \in {"commit", "respond", "done"}
                   /\ SinceLastFetch(c) = (IF c.pc = "commit" THEN <<>> ELSE <<"commit">>)
                   /\ c.pc = "done" =>
                          /\ c.outcome[1].status_code = 400
                          /\ c.outcome[1].cause = c.e
                          /\ c.outcome[1].body = <<>>

\* The repository fetch of a validate call has failed: the call has ended with 400
\* and the table's fields were not asked for.
C20_Witness ==
    /\ req[1].op = "validate"
    /\ req[1].pc = "done"
    /\ req[1].e = Some(ShortError)
    /\ Attempted(req[1]) = <<"get_repo">>
    /\ req[1].outcome = Some(FetchFailed("validate", ShortError))

\* ------------------------------------------------------------------ C19

ServedList == Len(log') = Len(log) + 1 /\ Served.op = "list"

\* C19: after any sequence of create_mapping calls by any owners,
\* list_mappings(owner) returns exactly the persisted mappings of that owner
\* (none of another owner's, none missing), ordered most-recently-created first,
\* and returns an empty list rather than an error when the owner has none.
C19_ListReturnsTheOwnersMappings ==
    [][ServedList =>
          LET own == {r \in mappings : r.user_id = Served.user_id}
              items == Served.outcome.body[1].items
          IN  /\ Served.outcome.status_code = 200
              /\ Len(items) = Cardinality(own)
              /\ {items[i].id : i \in 1..Len(items)} = {r.id : r \in own}
              /\ \A i, j \in 1..Len(items) : i < j => items[i].created_at >= items[j].created_at
    ]_vars

\* ------------------------------------------------------------------ C24

\* What create_mapping answers when it is handed a mapping under a direction.
CreatedWith(field_mapping, direction) ==
    create({}, 1, [github_repo_full_name |-> OWNER_REPO, servicenow_table |-> INCIDENT,
                   label |-> DEFAULT, direction |-> direction,
                   field_mapping |-> field_mapping]).outcome

\* C24: the mapping the Matcher suggests, passed unchanged to create_mapping with
\* the direction of the request, is never rejected with ValidationError,
\* whichever of the directions that is, bidirectional with its injectivity rule
\* included.
C24_SuggestionPassesTheValidator ==
    Len(ret) >= 1 =>
        \A d \in _DIRECTIONS :
            /\ _basic_validate_mapping(ret[1].mapping, d) = <<>>
            /\ CreatedWith(ret[1].mapping, d).errors = <<>>

\* ------------------------------------------------------------------ C25

\* A table field that no strategy matches: no repository field of its normalized
\* name, none of a synonym's, none as similar as 0.78.
Unmatched(sn) ==
    /\ ExactCandidates(sn, arg.gh_fields) = {}
    /\ SynonymCandidates(sn, arg.gh_fields) = {}
    /\ \A i \in 1..Len(arg.gh_fields) : ~AtLeast(Similarity(sn, i), <<78, 100>>)

\* C25: every key of the returned mapping is one of the given table fields, every
\* value one of the given repository fields in its original spelling, a table
\* field with no match under any strategy is absent from the mapping, and the
\* notes hold exactly one entry per matched table-field occurrence, in
\* table-field order.
C25_MatcherResultIsSound ==
    Len(ret) >= 1 =>
        LET out == ret[1]
            matched == SelectSeq(arg.sn_fields, LAMBDA sn : ~Unmatched(sn))
        IN  /\ DistinctKeys(out.mapping)
            /\ \A i \in 1..Len(out.mapping) :
                   /\ \E k \in 1..Len(arg.sn_fields) : out.mapping[i][1] = arg.sn_fields[k]
                   /\ \E k \in 1..Len(arg.gh_fields) : out.mapping[i][2] = arg.gh_fields[k]
            /\ \A k \in 1..Len(arg.sn_fields) :
                   InDict(arg.sn_fields[k], out.mapping)
                       <=> \E n \in 1..Len(matched) : matched[n] = arg.sn_fields[k]
            /\ Len(out.notes) = Len(matched)
            /\ \A n \in 1..Len(out.notes) :
                   /\ out.notes[n].sn = matched[n]
                   /\ out.notes[n].chosen = DictGet(out.mapping, matched[n])

\* owners is matched to owner_a as it is spelled; priority is not matched.
C25_Witness ==
    /\ Len(ret) >= 1
    /\ arg.sn_fields = <<OWNERS, PRIORITY>>
    /\ arg.gh_fields = <<OWNER_A, LANGUAGE>>
    /\ Unmatched(PRIORITY)
    /\ ret[1].mapping = <<<<OWNERS, OWNER_A>>>>
    /\ Len(ret[1].notes) = 1

\* ------------------------------------------------------------------ C28

\* The last of the repository fields that have the normalized name of field.
LastOfItsName(field) ==
    arg.gh_fields[SetMax({i \in 1..Len(arg.gh_fields) :
                            _normalize_name(arg.gh_fields[i]) = _normalize_name(field)})]

\* C28: when two distinct repository fields have the same normalized name, only
\* the one that comes last in repository-field order is a candidate: exact and
\* synonym matches on that name resolve to the last such field, and the earlier
\* field is never a value of the suggested mapping.
C28_LastFieldOfANameIsTheCandidate ==
    Len(ret) >= 1 =>
        /\ \A i \in 1..Len(ret[1].mapping) :
               ret[1].mapping[i][2] = LastOfItsName(ret[1].mapping[i][2])
        /\ \A k \in 1..Len(arg.sn_fields) :
               LET sn == arg.sn_fields[k]
                   exact == ExactCandidates(sn, arg.gh_fields)
                   present == PresentCandidates(sn, arg.gh_fields)
               IN  /\ exact # {} => DictGet(ret[1].mapping, sn) = arg.gh_fields[SetMax(exact)]
                   /\ exact = {} /\ present # {} =>
                          DictGet(ret[1].mapping, sn) =
                              LastOfItsName(synonyms(_normalize_name(sn))[SetMin(present)])

\* description by name and short_description by synonym both go to Description,
\* the later of the two fields of that name.
C28_Witness ==
    /\ Len(ret) >= 1
    /\ arg.sn_fields = <<DESCRIPTION, SHORT_DESCRIPTION>>
    /\ arg.gh_fields = <<DESCRIPTION, Description_>>
    /\ ret[1].mapping = <<<<DESCRIPTION, Description_>>, <<SHORT_DESCRIPTION, Description_>>>>

\* ------------------------------------------------------------------ C21

\* A call whose status write has failed ends.
EndsAfterFailedWrite(p) ==
    /\ req[p].pc # "done"
    /\ req'[p].pc = "done"
    /\ \E i \in 1..Len(req'[p].trace) : req'[p].trace[i] = "commit raised"

\* C21: a failure to write the credential status never changes the primary
\* outcome of validate_mapping or auto_map: with both fetches succeeded the call
\* still returns its success result, with a fetch failed the caller still
\* receives RemoteFetchFailed for the original fetch error.
C21_StatusWriteFailureIsSwallowed ==
    [][\A p \in DOMAIN req :
        EndsAfterFailedWrite(p) =>
            LET c == req'[p]
            IN  IF ~IsNone(c.repo_raw) /\ ~IsNone(c.sn_fields_raw)
                THEN c.outcome = Some(Outcome([c EXCEPT !.e = None]))
                ELSE c.outcome = Some(FetchFailed(c.op, c.e[1]))
    ]_vars

\* ------------------------------------------------------------------ C23
\* C23: secret retrieval never returns a secret to an owner who does not own the
\* reference: with either store, store.get(owner, reference) raises when the
\* reference is malformed for the store, unknown, or belongs to a different
\* owner; what it returns is a secret of the asking owner.
C23_RevealOnlyToTheOwner ==
    Len(ret) = 1 =>
        /\ ~ret[1].raised => ret[1].secret[1].owner = arg[1].user_id
        /\ (\/ arg[1].ref.store # settings.secret_store
            \/ arg[1].ref.store = "sqlite"
                 /\ ~\E row \in secrets : row.id = arg[1].ref.id /\ row.user_id = arg[1].user_id
            \/ arg[1].ref.store = "aws"
                 /\ (arg[1].ref.name \notin aws \/ arg[1].ref.name[2] # arg[1].user_id))
             => ret[1].raised

\* ------------------------------------------------------------------ C30
\* A step that serves a delete request, the binding the request names, and a
\* call taken up while a binding it needs is absent.
DeleteServed == Len(log') > Len(log)
DeletedBinding ==
    <<log'[Len(log')].user_id,
      IF lower(strip(log'[Len(log')].provider)) = ProviderName(GITHUB) THEN GITHUB
      ELSE SERVICENOW,
      log'[Len(log')].label>>
Absent(c, provider) == BindingKey(c, provider) \notin DOMAIN integrations
TakesUpUnbound(p) ==
    /\ TakesUp(p)
    /\ Absent(TakenUp(p), GITHUB) \/ Absent(TakenUp(p), SERVICENOW)

\* A served delete removes the binding it names and leaves every other binding
\* as it was; a binding comes back only by a connect that succeeded.
DeleteRemovesOneBinding ==
    /\ DeleteServed /\ log'[Len(log')].outcome = DeleteResponse =>
          /\ DeletedBinding \in DOMAIN integrations
          /\ DOMAIN integrations' = DOMAIN integrations \ {DeletedBinding}
          /\ \A k \in DOMAIN integrations' : integrations'[k] = integrations[k]
    /\ DeleteServed /\ log'[Len(log')].outcome # DeleteResponse => integrations' = integrations
    /\ \A k \in DOMAIN integrations' \ DOMAIN integrations :
          /\ ~IsNone(integrations'[k].secret_ref)
          /\ integrations'[k].last_test_ok = Some(TRUE)
          /\ integrations'[k].last_tested_at = Some(now)

\* C30 as stated: after a credential binding (owner, provider, label) has been
\* deleted, every later validate_mapping or auto_map call by that owner with that
\* label fails with CredentialNotConfigured without attempting a remote fetch,
\* until a connect for that provider and label succeeds again; the deletion does
\* not affect bindings of other owners, providers or labels.
C30_EveryLaterCallIsNotConfigured ==
    [][/\ DeleteRemovesOneBinding
       /\ \A p \in DOMAIN req :
            TakesUpUnbound(p) =>
                /\ TakenUp(p).pc = "done"
                /\ Fetches(TakenUp(p)) = {}
                /\ TakenUp(p).outcome \in {Some(NotConfigured(GITHUB)),
                                           Some(NotConfigured(SERVICENOW))}]_vars

\* C30, amended: after a credential binding has been deleted, every later
\* validate_mapping or auto_map call by that owner with that label fails without
\* attempting a remote fetch, until a connect for that provider and label
\* succeeds again: a call that passes the tests of the request fails with
\* CredentialNotConfigured (for GitHub if that binding is missing; for
\* ServiceNow otherwise, unless the secret store fails to return the GitHub
\* secret, which ends the call with the store's exception), and a call that does
\* not pass them fails with its validation error; the deletion does not affect
\* bindings of other owners, providers or labels.
C30_LaterValidCallIsNotConfigured ==
    [][/\ DeleteRemovesOneBinding
       /\ \A p \in DOMAIN req :
            TakesUpUnbound(p) =>
                /\ TakenUp(p).pc = "done"
                /\ Fetches(TakenUp(p)) = {}
                /\ ~PassesTests(TakenUp(p)) =>
                      /\ TakenUp(p).outcome[1].status_code = 400
                      /\ Lookups(TakenUp(p)) = {}
                /\ PassesTests(TakenUp(p)) /\ Absent(TakenUp(p), GITHUB) =>
                      TakenUp(p).outcome = Some(NotConfigured(GITHUB))
                /\ PassesTests(TakenUp(p)) /\ ~Absent(TakenUp(p), GITHUB) =>
                      \/ TakenUp(p).outcome = Some(NotConfigured(SERVICENOW))
                      \/ /\ TakenUp(p).outcome[1].status_code = 500
                         /\ settings.secret_store = "aws"
                         /\ TakenUp(p).trace = <<"query github", "store.get">>]_vars

\* Reached: owner 1's GitHub binding deleted under any spelling of the provider,
\* owner 2's bindings all there, and a call of owner 1 that passes the tests
\* ended with CredentialNotConfigured.
C30_Witness ==
    /\ Len(log) = 1
    /\ log[1].outcome = DeleteResponse
    /\ log[1].user_id = 1
    /\ log[1].provider = GitHub_
    /\ <<1, GITHUB, DEFAULT>> \notin DOMAIN integrations
    /\ <<2, GITHUB, DEFAULT>> \in DOMAIN integrations
    /\ req[1].pc = "done"
    /\ PassesTests(req[1])
    /\ req[1].outcome = Some(NotConfigured(GITHUB))

\* ------------------------------------------------------------------ C26
\* C26: in every reachable state each credential binding's last-test fields are
\* mutually consistent: all three unset, or last_tested_at set and either
\* last_test_ok true with the message "OK" or last_test_ok false with a message
\* of at most 500 characters.
C26_LastTestFieldsConsistent ==
    \A k \in DOMAIN integrations :
        \/ /\ IsNone(integrations[k].last_tested_at)
           /\ IsNone(integrations[k].last_test_ok)
           /\ IsNone(integrations[k].last_test_message)
        \/ /\ ~IsNone(integrations[k].last_tested_at)
           /\ integrations[k].last_test_ok = Some(TRUE)
           /\ integrations[k].last_test_message = Some(OK)
        \/ /\ ~IsNone(integrations[k].last_tested_at)
           /\ integrations[k].last_test_ok = Some(FALSE)
           /\ ~IsNone(integrations[k].last_test_message)
           /\ integrations[k].last_test_message[1].len <= MsgLimit

\* ------------------------------------------------------------------ C29
\* C29: the uniqueness key of create_mapping is computed on normalized inputs
\* (repository, table and label trimmed, an empty label stored as "default"):
\* a row that a create persists holds the normalized values, and a create whose
\* normalized key is that of an earlier acceptable create of the owner, or of a
\* mapping persisted already, fails with Conflict.
C29_NormalizedKeyCollides ==
    /\ \A i \in Creates :
          Succeeded(i) =>
              <<log[i].user_id, log[i].outcome.body[1].github_repo_full_name,
                log[i].outcome.body[1].servicenow_table, log[i].outcome.body[1].label>>
                  = KeyOf(log[i])
    /\ \A j \in Creates :
          (/\ Acceptable(log[j].req)
           /\ \/ \E i \in Creates :
                    i < j /\ Acceptable(log[i].req) /\ KeyOf(log[i]) = KeyOf(log[j])
              \/ \E row \in mappings : MappingKey(row) = KeyOf(log[j]))
              => log[j].outcome = ConflictError

\* ------------------------------------------------------------------ C27
\* C27: every failing create_mapping call (InvalidRepositoryIdentifier,
\* InvalidDirection, ValidationError or Conflict) leaves the set of persisted
\* mappings exactly as it was before the call: no row is added, removed or
\* altered.
C27_FailingCreateChangesNothing ==
    [][(ServedCreate /\ Served.outcome.status_code \in {400, 409}) =>
            mappings' = mappings]_vars

\* Reached: a create refused by the Validator whose key is that of a mapping
\* persisted already, and a create refused for its repository, with the
\* mappings found at start-up all there.
C27_Witness ==
    /\ mappings = {StoredMapping(1, 1, DEFAULT), StoredMapping(2, 2, DEFAULT),
                   StoredMapping(3, 1, <<"x">>)}
    /\ \E i, j \in Creates :
          /\ log[i].outcome.status_code = 400
          /\ HasOwnerNameShape(log[i].req)
          /\ log[i].req.direction = BIDIRECTIONAL
          /\ \E row \in mappings : MappingKey(row) = KeyOf(log[i])
          /\ log[j].outcome = RepoShapeError

\* ------------------------------------------------------------------ C22
\* C22: a persisted mapping is never mutated in place: every persisted mapping
\* stays as it is under every create_mapping, list_mappings, validate_mapping
\* and auto_map call by any owner, and the steps of validate_mapping and
\* auto_map leave the set of persisted mappings unchanged.
C22_PersistedMappingsStay ==
    [][/\ \A row \in mappings : row \in mappings'
       /\ (\E p \in DOMAIN req : req'[p] # req[p]) => mappings' = mappings]_vars

\* Reached: with three mappings persisted, a create_mapping with the key of one
\* of them and a list_mappings have been served, and a validate_mapping or
\* auto_map call has returned its result.
C22_Witness ==
    /\ Cardinality(mappings) = 3
    /\ Len(log) = 2
    /\ \E i \in Creates : \E row \in mappings : MappingKey(row) = KeyOf(log[i])
    /\ \E i \in 1..Len(log) : log[i].op = "list"
    /\ req[1].pc = "done"
    /\ req[1].outcome[1].status_code = 200

====
